---- MODULE Spec2Model ----
(***************************************************************************)
(* A model of pyang's SID plugin (pyang/plugins/sid.py): the SidFile       *)
(* object that loads, validates, reconciles, allocates and writes ".sid"   *)
(* identifier assignment documents.                                        *)
(*                                                                         *)
(* Python values are modelled as follows.  An integer is a TLA+ integer.   *)
(* A string is a TLA+ string.  A list is a sequence.  The items and the    *)
(* ranges of self.content are records; the dictionary self.content is a    *)
(* record with one field per key the plugin reads.  An exception is the    *)
(* string naming it ("" when none was raised).                             *)
(***************************************************************************)
EXTENDS Integers, Sequences, FiniteSets, TLC

VARIABLES
    file,           \* the persisted .sid document (the JSON text on disk), or NoFile
    content,        \* self.content of the SidFile object of the current run
    opts,           \* the option fields of the SidFile object (set by post_validate_ctx)
    is_consistent,  \* self.is_consistent
    error,          \* the exception that ended process_sid_file ("" when it returned)
    output,         \* what the run printed, one record per diagnostic
    generated,      \* list(self.gen_sids(used)) of the last assign_sid call
    yang_module,    \* the module (and its context) pyang compiled for the run
    pc              \* "start" before a method is called, "done" after it ended

vars == <<file, content, opts, is_consistent, error, output, generated, yang_module, pc>>

-----------------------------------------------------------------------------
(* Bounds of the model *)

\* the largest number of assignment ranges a drawn document declares
MaxRanges == 2
\* the largest number of items a drawn document lists
MaxItems == 2

\* entry points and sizes documents and command lines are drawn from
\* (sid.py accepts any Python integer a decimal string spells)
EntryPoints == {-2, 0, 1, 3}
Sizes == {0, 1, 3}
\* the entry points a command-line range can spell: set_sid_range matches \d+
ArgEntryPoints == {e \in EntryPoints : e >= 0}

\* sid.py:916, sid.py:929: the sid of an item no identifier was assigned to
Unassigned == -1

\* the integers whose decimal spelling the model's strings can hold
Numerals == (-4 .. 12) \cup {100} \cup (20000 .. 20002)

-----------------------------------------------------------------------------
(* Python built-ins *)

RECURSIVE SeqSum(_)
SeqSum(s) == IF s = <<>> THEN 0 ELSE Head(s) + SeqSum(Tail(s))

Range(s) == {s[i] : i \in DOMAIN s}

\* list.sort / sorted: a stable sort; lt(a, b) is "a sorts strictly before b".
\* The element at position i goes behind every element that sorts strictly
\* before it and behind the equal ones that stood in front of it.
SortedPosition(s, i, lt(_, _)) ==
    1 + Cardinality({j \in DOMAIN s :
            \/ lt(s[j], s[i])
            \/ ~lt(s[i], s[j]) /\ j < i})

StableSort(s, lt(_, _)) ==
    [p \in DOMAIN s |-> s[CHOOSE i \in DOMAIN s : SortedPosition(s, i, lt) = p]]

IntLt(a, b) == a < b

\* sorted(<integers>)
sorted(s) == StableSort(s, IntLt)

\* the value of an expression evaluated once: Only({e(x) : x \in {v}})
Only(values) == CHOOSE value \in values : TRUE

-----------------------------------------------------------------------------
(* Exceptions *)

NoError == [class |-> "", msg |-> "", s |-> "", n |-> 0]
Raise(class, msg) == [class |-> class, msg |-> msg, s |-> "", n |-> 0]
RaiseS(class, msg, str) == [class |-> class, msg |-> msg, s |-> str, n |-> 0]
RaiseN(class, msg, num) == [class |-> class, msg |-> msg, s |-> "", n |-> num]

-----------------------------------------------------------------------------
(* The JSON document json.load returns: the wire form *)

\* a JSON member value: a string, an integer, or no member of that name
Str(str) == [t |-> "str", s |-> str, n |-> 0]
Num(num) == [t |-> "int", s |-> "", n |-> num]
Absent == [t |-> "absent", s |-> "", n |-> 0]

\* A document is a record: top, the member names of the outermost object in
\* file order; keys, the member names of the sid-file object in file order;
\* scalars, the value of each member that holds one value; deps, ranges and
\* items, the entries of the three lists, each member a JSON member value.
NoFile == [top |-> <<"<no file>">>, keys |-> <<>>, scalars |-> <<>>, deps |-> <<>>,
           ranges |-> <<>>, items |-> <<>>]

WrapperKey == "ietf-sid-file:sid-file"
QualifiedPrefix == "ietf-sid-file:"

\* the members of the sid-file object that hold one value
ScalarFields == {"module-name", "module-revision", "sid-file-version",
                 "sid-file-status", "description"}
ListFields == {"dependency-revision", "assignment-range", "item"}

\* key == name or key == 'ietf-sid-file:' + name
IsKey(key, name) == key = name \/ key = QualifiedPrefix \o name

\* the short name a member name stands for (itself when it is none of the
\* plugin's names): what normalize_key_names renames it to
ShortName(key) ==
    IF \E f \in ScalarFields \cup ListFields : key = QualifiedPrefix \o f
    THEN CHOOSE f \in ScalarFields \cup ListFields : key = QualifiedPrefix \o f
    ELSE key

\* str(n) for an integer n
PyStr(num) == ToString(num)

\* spellings int() accepts besides the ones str() writes
OtherSpellings == << [s |-> "+1", n |-> 1], [s |-> "01", n |-> 1],
                     [s |-> " 0", n |-> 0] >>

\* int(s) for a string s: [ok |-> FALSE] stands for ValueError
PyInt(str) ==
    IF \E num \in Numerals : PyStr(num) = str
    THEN [ok |-> TRUE, n |-> CHOOSE num \in Numerals : PyStr(num) = str]
    ELSE IF \E i \in DOMAIN OtherSpellings : OtherSpellings[i].s = str
    THEN [ok |-> TRUE,
          n |-> OtherSpellings[CHOOSE i \in DOMAIN OtherSpellings :
                                   OtherSpellings[i].s = str].n]
    ELSE [ok |-> FALSE, n |-> 0]

\* str.endswith(<tuple of suffixes>), over strings of a bounded set of prefixes
StringPrefixes == {"", "x", "not-"}
EndsWith(str, ends) == \E e \in ends, p \in StringPrefixes : str = p \o e

-----------------------------------------------------------------------------
(* Loading a document: strip_wrapper, validate_key_and_value and what it calls *)

\* sid.py:438-452.  The loop looks at the first member only: the wrapper ends
\* it with break, any other name raises.  The value of the wrapper is an
\* object in every document of the model, and no document holds a member
\* 'items' beside it, the mark of the legacy format that
\* upgrade_sid_file_format (sid.py:1131-1133) rewrites before this.
strip_wrapper(f) ==
    IF f.top = <<>>
    THEN Raise("SidFileError", "mandatory object 'ietf-sid-file:sid-file' not present")
    ELSE IF Head(f.top) = WrapperKey THEN NoError
    ELSE RaiseS("SidFileError", "invalid field", Head(f.top))

\* sid.py:543-548, 552-557, 589-594: a YANG uint64 member must be a string
\* that int() converts
Uint64Error(w, name) ==
    IF w.t = "absent" THEN NoError
    ELSE IF w.t # "str" THEN RaiseS("SidFileError", "invalid value", name)
    ELSE IF ~PyInt(w.s).ok THEN RaiseS("SidFileError", "invalid value", name)
    ELSE NoError

\* arange[key] = int(arange[key]): the member after validation
Uint64Value(w) == IF w.t = "str" THEN Num(PyInt(w.s).n) ELSE w

\* sid.py:540-560: the members of one range, entry-point before size
RangeEntryError(r) ==
    IF Uint64Error(r.entry_point, "entry-point") # NoError
    THEN Uint64Error(r.entry_point, "entry-point")
    ELSE Uint64Error(r.size, "size")

\* the error of the first entry of a list that has one
FirstError(errors) ==
    IF \E i \in DOMAIN errors : errors[i] # NoError
    THEN errors[CHOOSE i \in DOMAIN errors :
                    /\ errors[i] # NoError
                    /\ \A j \in 1..(i - 1) : errors[j] = NoError]
    ELSE NoError

\* sid.py:534-566.  The two flags are shared by all ranges of the list.
validate_ranges(ranges) ==
    LET first == FirstError([i \in DOMAIN ranges |-> RangeEntryError(ranges[i])])
        entry_point_absent == \A i \in DOMAIN ranges : ranges[i].entry_point.t = "absent"
        size_absent == \A i \in DOMAIN ranges : ranges[i].size.t = "absent"
    IN IF first # NoError THEN first
       ELSE IF entry_point_absent
       THEN Raise("SidFileError", "mandatory field 'entry-point' not present")
       ELSE IF size_absent
       THEN Raise("SidFileError", "mandatory field 'size' not present")
       ELSE NoError

\* sid.py:568
namespace_ends == {"module", "identity", "feature", "data"}

\* sid.py:575-597: the members of one item: namespace, identifier, sid
ItemEntryError(item) ==
    IF item.namespace.t # "absent"
       /\ ~(item.namespace.t = "str" /\ EndsWith(item.namespace.s, namespace_ends))
    THEN RaiseS("SidFileError", "invalid value", "namespace")
    ELSE IF item.identifier.t \notin {"absent", "str"}
    THEN RaiseS("SidFileError", "invalid value", "identifier")
    ELSE Uint64Error(item.sid, "sid")

\* sid.py:570-606.  The three flags are shared by all items of the list.
validate_items(items) ==
    LET first == FirstError([i \in DOMAIN items |-> ItemEntryError(items[i])])
        namespace_absent == \A i \in DOMAIN items : items[i].namespace.t = "absent"
        identifier_absent == \A i \in DOMAIN items : items[i].identifier.t = "absent"
        sid_absent == \A i \in DOMAIN items : items[i].sid.t = "absent"
    IN IF first # NoError THEN first
       ELSE IF namespace_absent
       THEN Raise("SidFileError", "mandatory field 'namespace' not present")
       ELSE IF identifier_absent
       THEN Raise("SidFileError", "mandatory field 'identifier' not present")
       ELSE IF sid_absent
       THEN Raise("SidFileError", "mandatory field 'sid' not present")
       ELSE NoError

\* sid.py:612-624: the members of one dependency-revision entry
DependencyEntryError(dep) ==
    IF dep.module_name.t \notin {"absent", "str"}
    THEN RaiseS("SidFileError", "invalid value", "module-name")
    ELSE IF dep.module_revision.t \notin {"absent", "str"}
    THEN RaiseS("SidFileError", "invalid value", "module-revision")
    ELSE NoError

\* sid.py:608-630
validate_dependency_revisions(deps) ==
    LET first == FirstError([i \in DOMAIN deps |-> DependencyEntryError(deps[i])])
    IN IF first # NoError THEN first
       ELSE IF \A i \in DOMAIN deps : deps[i].module_name.t = "absent"
       THEN Raise("SidFileError", "mandatory field 'module-name' not present")
       ELSE IF \A i \in DOMAIN deps : deps[i].module_revision.t = "absent"
       THEN Raise("SidFileError", "mandatory field 'module-revision' not present")
       ELSE NoError

\* sid.py:456
status_ends == {"unpublished", "published"}

\* sid.py:464-502: one member of the sid-file object
MemberError(f, key) ==
    IF IsKey(key, "assignment-range") THEN validate_ranges(f.ranges)
    ELSE IF IsKey(key, "module-name") \/ IsKey(key, "module-revision") THEN NoError
    ELSE IF IsKey(key, "description")
    THEN IF f.scalars["description"].t = "str" THEN NoError
         ELSE RaiseS("SidFileError", "invalid value", "description")
    ELSE IF IsKey(key, "sid-file-version")
    THEN IF f.scalars["sid-file-version"].t = "int" THEN NoError
         ELSE RaiseS("SidFileError", "invalid value", "sid-file-version")
    ELSE IF IsKey(key, "sid-file-status")
    THEN IF /\ f.scalars["sid-file-status"].t = "str"
            /\ EndsWith(f.scalars["sid-file-status"].s, status_ends)
         THEN NoError
         ELSE RaiseS("SidFileError", "invalid value", "sid-file-status")
    ELSE IF IsKey(key, "dependency-revision") THEN validate_dependency_revisions(f.deps)
    ELSE IF IsKey(key, "item") THEN validate_items(f.items)
    ELSE RaiseS("SidFileError", "invalid field", key)

HasKey(f, name) == \E i \in DOMAIN f.keys : IsKey(f.keys[i], name)

\* sid.py:458-514
validate_key_and_value(f) ==
    FirstError([i \in DOMAIN f.keys |-> MemberError(f, f.keys[i])] \o
               <<IF HasKey(f, "module-name") THEN NoError
                 ELSE Raise("SidFileError", "mandatory field 'module-name' not present"),
                 IF HasKey(f, "module-revision") THEN NoError
                 ELSE Raise("SidFileError", "mandatory field 'module-revision' not present"),
                 IF HasKey(f, "assignment-range") THEN NoError
                 ELSE Raise("SidFileError", "mandatory field 'assignment-range' not present"),
                 IF HasKey(f, "item") THEN NoError
                 ELSE Raise("SidFileError", "mandatory field 'item' not present")>>)

-----------------------------------------------------------------------------
(* Range and identifier validation of the loaded document *)

\* a member the dictionary of an entry does not hold: item['sid'] raises KeyError
Missing == "<missing>"

\* the first half of the condition only: is low inside the range seen before
RangesCollideOneWay(used_low, used_high, low, high) ==
    used_low <= low /\ low < used_high

\* sid.py:645: a range [low, high) against a range [used_low, used_high) seen before
RangesCollide(used_low, used_high, low, high) ==
    \/ used_low <= low /\ low < used_high
    \/ low <= used_low /\ used_low < high

\* sid.py:640-647: the body of the loop for the i-th range; the ranges in
\* front of it are in the list "used"
OverlapErrorAt(ranges, i) ==
    IF ranges[i].entry_point.t = "absent" THEN RaiseS("KeyError", "", "entry-point")
    ELSE IF ranges[i].size.t = "absent" THEN RaiseS("KeyError", "", "size")
    ELSE IF \E j \in 1..(i - 1) :
                RangesCollide(ranges[j].entry_point.n,
                              ranges[j].entry_point.n + ranges[j].size.n,
                              ranges[i].entry_point.n,
                              ranges[i].entry_point.n + ranges[i].size.n)
    THEN Raise("SidFileError", "overlapping ranges are not allowed.")
    ELSE NoError

\* sid.py:634-647, over ranges whose members are Num(n) or Absent
validate_overlapping_ranges(ranges) ==
    FirstError([i \in DOMAIN ranges |-> OverlapErrorAt(ranges, i)])

\* sid.py:662-666
out_of_ranges(ranges, sid) ==
    ~\E i \in DOMAIN ranges :
        /\ ranges[i].entry_point.n <= sid
        /\ sid < ranges[i].entry_point.n + ranges[i].size.n

SidLt(a, b) == a.sid.n < b.sid.n

\* sid.py:654-660: the body of the loop for the i-th item of the sorted list
SidErrorAt(ranges, items, i) ==
    LET sid == items[i].sid.n
        last_sid == IF i = 1 THEN -1 ELSE items[i - 1].sid.n
    IN IF out_of_ranges(ranges, sid)
       THEN RaiseN("SidFileError", "'sid' not within 'assignment-range'", sid)
       ELSE IF sid = last_sid
       THEN RaiseN("SidFileError", "duplicated 'sid' value", sid)
       ELSE NoError

\* validate_sid without its sort: the items are compared in file order
validate_sid_in_file_order(ranges, items) ==
    IF \E i \in DOMAIN items : items[i].sid.t = "absent"
    THEN [error |-> RaiseS("KeyError", "", "sid"), items |-> items]
    ELSE [error |-> FirstError([i \in DOMAIN items |-> SidErrorAt(ranges, items, i)]),
          items |-> items]

\* sid.py:651-660, over items whose sid is Num(n) or Absent: the error raised
\* and the item list as the sort left it
validate_sid(ranges, items) ==
    IF \E i \in DOMAIN items : items[i].sid.t = "absent"
    THEN [error |-> RaiseS("KeyError", "", "sid"), items |-> items]
    ELSE LET sorted_items == StableSort(items, SidLt)
         IN [error |-> FirstError([i \in DOMAIN sorted_items |->
                                      SidErrorAt(ranges, sorted_items, i)]),
             items |-> sorted_items]

-----------------------------------------------------------------------------
(* The schema context pyang hands to process_sid_file                      *)
(*                                                                         *)
(* A module value m holds: m.ctx, the statements of module.i_ctx.modules   *)
(* in dictionary order (keyword, arg, revision and, for a submodule, the   *)
(* name of the including module), the subject module being m.ctx[1];       *)
(* m.features and m.identities, the keys of i_features and i_identities;   *)
(* m.nodes, the schema nodes, each with its arg, keyword, i_module (a      *)
(* position of m.ctx), its parent node (0 for a child of a module) and     *)
(* root (the module of m.ctx whose i_children hold a top-level node);      *)
(* m.augments, the i_target_node of each augment statement of the subject. *)
(***************************************************************************)

SubjectOf(m) == 1

\* the i_children of schema node p, in order
RECURSIVE NodeIdsWhere(_, _, _, _)
NodeIdsWhere(m, n, parent, root) ==
    IF n > Len(m.nodes) THEN <<>>
    ELSE (IF /\ m.nodes[n].parent = parent
             /\ (parent # 0 \/ m.nodes[n].root = root)
          THEN <<n>> ELSE <<>>) \o NodeIdsWhere(m, n + 1, parent, root)

ChildrenOfNode(m, p) == NodeIdsWhere(m, 1, p, 0)
\* the i_children of the module statement m.ctx[k]
ChildrenOfModule(m, k) == NodeIdsWhere(m, 1, 0, k)

\* sid.py:781-794.  max() of an empty list raises ValueError.
get_module_by_name(m, module_name) ==
    LET revisions == {k \in DOMAIN m.ctx : m.ctx[k].arg = module_name}
    IN IF revisions = {} THEN [error |-> Raise("ValueError", "max() arg is an empty sequence"),
                               module |-> 0]
       ELSE [error |-> NoError,
             module |-> CHOOSE k \in revisions :
                            \A j \in revisions : m.ctx[j].revision <= m.ctx[k].revision]

\* the revision dates of the model, oldest first; a statement of m.ctx holds
\* the position of its date, so that max() and <= order dates as Python
\* orders the strings
Revisions == << "2009-11-20", "2009-12-28" >>

\* util.get_latest_revision(module)
get_latest_revision(m, k) == Revisions[m.ctx[k].revision]

\* Context.get_module(name) of pyang: the module of that name, or None (0)
ctx_get_module(m, name) ==
    IF \E k \in DOMAIN m.ctx : m.ctx[k].arg = name
    THEN get_module_by_name(m, name).module
    ELSE 0

\* sid.py:868-872, for a statement whose i_module is m.ctx[i_module]
is_from_same_namespace(m, i_module, module) ==
    IF m.ctx[i_module].keyword = "submodule"
    THEN ctx_get_module(m, m.ctx[i_module].including) = module
    ELSE i_module = module

\* sid.py:883-889
get_main_module(m, i_module) ==
    IF m.ctx[i_module].keyword = "submodule"
    THEN get_module_by_name(m, m.ctx[i_module].including).module
    ELSE i_module

\* sid.py:874-881; parent_module is the i_module of the parent statement
add_to_path(m, node, parent_module, prefix) ==
    LET main_module == get_main_module(m, m.nodes[node].i_module)
    IN IF prefix = "" \/ main_module # get_main_module(m, parent_module)
       THEN prefix \o "/" \o m.ctx[main_module].arg \o ":" \o m.nodes[node].arg
       ELSE prefix \o "/" \o m.nodes[node].arg

\* sid.py:797-800
schema_node_keywords == {"action", "container", "leaf", "leaf-list", "list", "choice",
                         "case", "rpc", "input", "output", "notification", "anydata",
                         "anyxml", "ietf-restconf:yang-data",
                         "ietf-yang-structure-ext:structure"}

\* sid.py:854-866: the identifiers iterate_schema_nodes passes to merge_item,
\* in order, for the children "ids" of a parent whose i_module is parent_module
RECURSIVE iterate_schema_nodes(_, _, _, _, _)
iterate_schema_nodes(m, ids, parent_module, module, path) ==
    IF ids = <<>> THEN <<>>
    ELSE LET n == Head(ids)
             new_path == add_to_path(m, n, parent_module, path)
         IN (IF /\ is_from_same_namespace(m, m.nodes[n].i_module, module)
                /\ m.nodes[n].keyword \in schema_node_keywords
             THEN <<new_path>> \o iterate_schema_nodes(m, ChildrenOfNode(m, n),
                                                       m.nodes[n].i_module, module, new_path)
             ELSE <<>>)
            \o iterate_schema_nodes(m, Tail(ids), parent_module, module, path)

\* the i_module of the parent statement of node n: the module itself for a
\* top-level node
ParentModule(m, n) ==
    IF m.nodes[n].parent = 0 THEN m.nodes[n].root
    ELSE m.nodes[m.nodes[n].parent].i_module

\* sid.py:891-908
RECURSIVE get_path_to_root(_, _)
get_path_to_root(m, n) ==
    add_to_path(m, n, ParentModule(m, n),
                IF m.nodes[n].parent = 0 THEN ""
                ELSE get_path_to_root(m, m.nodes[n].parent))

\* sid.py:848-852: the data identifiers the augment statements contribute
RECURSIVE AugmentItems(_, _)
AugmentItems(m, targets) ==
    IF targets = <<>> THEN <<>>
    ELSE iterate_schema_nodes(m, ChildrenOfNode(m, Head(targets)),
                              m.nodes[Head(targets)].i_module, SubjectOf(m),
                              get_path_to_root(m, Head(targets)))
         \o AugmentItems(m, Tail(targets))

Key(namespace, identifier) == [namespace |-> namespace, identifier |-> identifier]

RECURSIVE KeysOf(_, _)
KeysOf(namespace, identifiers) ==
    IF identifiers = <<>> THEN <<>>
    ELSE <<Key(namespace, Head(identifiers))>> \o KeysOf(namespace, Tail(identifiers))

\* the arg of the submodules among m.ctx, in dictionary order
RECURSIVE SubmoduleNames(_, _)
SubmoduleNames(m, k) ==
    IF k > Len(m.ctx) THEN <<>>
    ELSE (IF m.ctx[k].keyword = "submodule" THEN <<m.ctx[k].arg>> ELSE <<>>)
         \o SubmoduleNames(m, k + 1)

\* sid.py:834-852: the (namespace, identifier) pairs collect_module_items
\* passes to merge_item, in order
Enumeration(m) ==
    <<Key("module", m.ctx[SubjectOf(m)].arg)>>
    \o KeysOf("module", SubmoduleNames(m, 1))
    \o KeysOf("feature", m.features)
    \o KeysOf("data", iterate_schema_nodes(m, ChildrenOfModule(m, SubjectOf(m)),
                                           SubjectOf(m), SubjectOf(m), ""))
    \o KeysOf("identity", m.identities)
    \o KeysOf("data", AugmentItems(m, m.augments))

\* sid.py:910-917.  The scan ends at the first item that matches, or whose
\* dictionary lacks a member the comparison reads (KeyError).
merge_item(items, is_cons, namespace, identifier) ==
    LET stops == {i \in DOMAIN items :
                     \/ items[i].namespace = Missing
                     \/ /\ namespace = items[i].namespace
                        /\ items[i].identifier \in {Missing, identifier}}
        first == CHOOSE i \in stops : \A j \in stops : i <= j
    IN IF stops = {}
       THEN [items |-> Append(items, [namespace |-> namespace, identifier |-> identifier,
                                      sid |-> Unassigned, status |-> "n"]),
             is_consistent |-> FALSE, error |-> NoError]
       ELSE IF items[first].namespace = Missing
       THEN [items |-> items, is_consistent |-> is_cons,
             error |-> RaiseS("KeyError", "", "namespace")]
       ELSE IF items[first].identifier = Missing
       THEN [items |-> items, is_consistent |-> is_cons,
             error |-> RaiseS("KeyError", "", "identifier")]
       ELSE [items |-> [items EXCEPT ![first].status = "o"],
             is_consistent |-> is_cons, error |-> NoError]

\* the calls of merge_item for a list of (namespace, identifier) pairs
RECURSIVE MergeAll(_, _, _)
MergeAll(items, is_cons, keys) ==
    IF keys = <<>> THEN [items |-> items, is_consistent |-> is_cons, error |-> NoError]
    ELSE Only({
            IF merged.error # NoError THEN merged
            ELSE MergeAll(merged.items, merged.is_consistent, Tail(keys)) :
            merged \in {merge_item(items, is_cons, Head(keys).namespace,
                                   Head(keys).identifier)}})

\* sid.py:827-852
collect_module_items(items, is_cons, m) ==
    MergeAll([i \in DOMAIN items |-> [items[i] EXCEPT !.status = "d"]], is_cons,
             Enumeration(m))

\* Python's order of the strings of the model (by code point), least first
StringsInOrder == << "/m:c", "/m:c/x", "/m:c/y", "/m:d", "/n:t/m:y", "a", "data", "f", "feature",
                     "heating-element", "i", "identity", "m", "module", "ms", "n", "ns", "s", "toaster",
                     "xdata", "z" >>

StrPos(str) == CHOOSE i \in DOMAIN StringsInOrder : StringsInOrder[i] = str
StrLt(a, b) == StrPos(a) < StrPos(b)

IdentifierLt(a, b) == StrLt(a.identifier, b.identifier)
\* key=namespace, reverse=True
NamespaceGt(a, b) == StrLt(b.namespace, a.namespace)

\* sort_items with the second sort in ascending order (no reverse=True)
sort_items_namespace_ascending(items) ==
    IF \E i \in DOMAIN items : items[i].identifier = Missing
    THEN [items |-> items, error |-> RaiseS("KeyError", "", "identifier")]
    ELSE IF \E i \in DOMAIN items : items[i].namespace = Missing
    THEN [items |-> StableSort(items, IdentifierLt),
          error |-> RaiseS("KeyError", "", "namespace")]
    ELSE [items |-> StableSort(StableSort(items, IdentifierLt),
                               LAMBDA a, b : StrLt(a.namespace, b.namespace)),
          error |-> NoError]

\* sort_items without its second sort: the items by identifier only
sort_items_by_identifier(items) ==
    IF \E i \in DOMAIN items : items[i].identifier = Missing
    THEN [items |-> items, error |-> RaiseS("KeyError", "", "identifier")]
    ELSE [items |-> StableSort(items, IdentifierLt), error |-> NoError]

\* sid.py:921-923
sort_items(items) ==
    IF \E i \in DOMAIN items : items[i].identifier = Missing
    THEN [items |-> items, error |-> RaiseS("KeyError", "", "identifier")]
    ELSE IF \E i \in DOMAIN items : items[i].namespace = Missing
    THEN [items |-> StableSort(items, IdentifierLt),
          error |-> RaiseS("KeyError", "", "namespace")]
    ELSE [items |-> StableSort(StableSort(items, IdentifierLt), NamespaceGt),
          error |-> NoError]

-----------------------------------------------------------------------------
(* Diagnostics *)

\* one printed line: what it reports and the item it is about
Out(kind, namespace, identifier, sid, note) ==
    [kind |-> kind, namespace |-> namespace, identifier |-> identifier,
     sid |-> sid, note |-> note]

Say(kind) == Out(kind, "", "", 0, "")

-----------------------------------------------------------------------------
(* Cross-reference validation: validate_against_module *)

\* the schema node identifiers the model's strings can spell:
\* /prefix:name or /name segments (syntax.re_schema_node_id_part)
PathPrefixes == {"", "m", "n", "q"}
PathNames == {"c", "d", "t", "x", "y"}
\* the longest path, in segments, among them
MaxPathLen == 2

PathSegments == [prefix : PathPrefixes, name : PathNames]

FormatSegment(seg) ==
    "/" \o (IF seg.prefix = "" THEN "" ELSE seg.prefix \o ":") \o seg.name

RECURSIVE FormatPath(_)
FormatPath(segs) ==
    IF segs = <<>> THEN "" ELSE FormatSegment(Head(segs)) \o FormatPath(Tail(segs))

Paths == UNION {[1..k -> PathSegments] : k \in 1..MaxPathLen}

\* re_schema_node_id_part.findall(identifier): the (prefix, name) pairs of
\* the segments; the empty list for a string that has none
ParsePath(identifier) ==
    IF \E segs \in Paths : FormatPath(segs) = identifier
    THEN CHOOSE segs \in Paths : FormatPath(segs) = identifier
    ELSE <<>>

NoNode == [kind |-> "none", id |-> 0]
ModuleRef(k) == [kind |-> "module", id |-> k]
NodeRef(n) == [kind |-> "node", id |-> n]

\* parent.i_children (hasattr(parent, 'i_children') fails for None)
ChildrenOf(m, parent) ==
    IF parent.kind = "module" THEN ChildrenOfModule(m, parent.id)
    ELSE IF parent.kind = "node" THEN ChildrenOfNode(m, parent.id)
    ELSE <<>>

\* sid.py:771-779
find_schema_node_child(m, name, parent, module) ==
    LET children == ChildrenOf(m, parent)
        hits == {i \in DOMAIN children :
                    /\ m.nodes[children[i]].arg = name
                    /\ is_from_same_namespace(m, m.nodes[children[i]].i_module, module)}
    IN IF hits = {} THEN NoNode
       ELSE NodeRef(children[CHOOSE i \in hits : \A j \in hits : i <= j])

\* sid.py:739-762: the loop over the segments of the path
RECURSIVE WalkPath(_, _, _, _, _)
WalkPath(m, identifier, path, schema_node_module, schema_node) ==
    IF path = <<>>
    THEN [valid |-> TRUE, output |-> <<>>, error |-> NoError, node |-> schema_node]
    ELSE LET module_name == Head(path).prefix
             name == Head(path).name
         IN IF schema_node_module = 0 /\ module_name = ""
            THEN [valid |-> FALSE, error |-> NoError, node |-> schema_node,
                  output |-> <<Out("missing module prefix", "data", identifier, 0, name)>>]
            ELSE LET lookup == module_name # ""
                               /\ (schema_node_module = 0
                                   \/ m.ctx[schema_node_module].arg # module_name)
                 IN Only({
                    IF found.error # NoError
                    THEN [valid |-> FALSE, error |-> found.error, node |-> schema_node,
                          output |-> <<>>]
                    ELSE Only({
                        IF child = NoNode
                        THEN [valid |-> FALSE, error |-> NoError, node |-> child,
                              output |-> <<Out("name not found", "data", identifier, 0,
                                               name)>>]
                        ELSE WalkPath(m, identifier, Tail(path), found.module, child) :
                        child \in {find_schema_node_child(m, name,
                                       IF lookup /\ schema_node = NoNode
                                       THEN ModuleRef(found.module) ELSE schema_node,
                                       found.module)}}) :
                    found \in {IF lookup THEN get_module_by_name(m, module_name)
                               ELSE [error |-> NoError, module |-> schema_node_module]}})

\* sid.py:728-769
check_data_identifier(m, identifier) ==
    Only({
        IF path = <<>>
        THEN [valid |-> FALSE, error |-> NoError,
              output |-> <<Out("not a valid schema node identifier", "data", identifier,
                               0, "")>>]
        ELSE Only({
            IF ~walk.valid
            THEN [valid |-> FALSE, error |-> walk.error, output |-> walk.output]
            ELSE IF ~is_from_same_namespace(m, m.nodes[walk.node.id].i_module, SubjectOf(m))
            THEN [valid |-> FALSE, error |-> NoError,
                  output |-> <<Out("not a schema node from .yang file", "data", identifier,
                                   0, "")>>]
            ELSE [valid |-> TRUE, error |-> NoError, output |-> <<>>] :
            walk \in {WalkPath(m, identifier, path, 0, NoNode)}}) :
        path \in {ParsePath(identifier)}})

\* sid.py:696-700
RECURSIVE module_or_submodule(_, _)
module_or_submodule(m, k) ==
    IF k > Len(m.ctx) THEN {}
    ELSE (IF m.ctx[k].keyword = "submodule" \/ k = SubjectOf(m) THEN {m.ctx[k].arg} ELSE {})
         \cup module_or_submodule(m, k + 1)

\* sid.py:702-721: the body of the loop for one item
CheckItem(m, item) ==
    IF item.namespace = "module"
    THEN IF item.identifier \notin module_or_submodule(m, 1)
         THEN [valid |-> FALSE, error |-> NoError,
               output |-> <<Out("no module", "module", item.identifier, 0, "")>>]
         ELSE [valid |-> TRUE, error |-> NoError, output |-> <<>>]
    ELSE IF item.namespace = "feature"
    THEN IF item.identifier \notin Range(m.features)
         THEN [valid |-> FALSE, error |-> NoError,
               output |-> <<Out("no feature", "feature", item.identifier, 0, "")>>]
         ELSE [valid |-> TRUE, error |-> NoError, output |-> <<>>]
    ELSE IF item.namespace = "identity"
    THEN IF item.identifier \notin Range(m.identities)
         THEN [valid |-> FALSE, error |-> NoError,
               output |-> <<Out("no identity", "identity", item.identifier, 0, "")>>]
         ELSE [valid |-> TRUE, error |-> NoError, output |-> <<>>]
    ELSE IF item.namespace = "data"
    THEN IF item.identifier = Missing
         THEN [valid |-> FALSE, error |-> Raise("TypeError", "expected string"),
               output |-> <<>>]
         ELSE check_data_identifier(m, item.identifier)
    ELSE [valid |-> TRUE, error |-> NoError, output |-> <<>>]

\* sid.py:701-721: the loop over the items; an exception ends it
RECURSIVE CheckItems(_, _, _, _)
CheckItems(m, items, valid, printed) ==
    IF items = <<>> THEN [valid |-> valid, error |-> NoError, output |-> printed]
    ELSE Only({
            IF checked.error # NoError
            THEN [valid |-> FALSE, error |-> checked.error,
                  output |-> printed \o checked.output]
            ELSE CheckItems(m, Tail(items), valid /\ checked.valid,
                            printed \o checked.output) :
            checked \in {CheckItem(m, Head(items))}})

\* sid.py:683-693: the warnings about the dependency revisions.  has_deps
\* tells whether the document holds the member at all.
RECURSIVE DependencyWarnings(_, _, _)
DependencyWarnings(has_deps, deps, m) ==
    IF ~has_deps
    THEN [error |-> NoError,
          output |-> IF m.imports THEN <<Say("WARNING, no dependency revisions")>>
                     ELSE <<>>]
    ELSE IF deps = <<>> THEN [error |-> NoError, output |-> <<>>]
    ELSE IF \E k \in DOMAIN m.ctx :
                /\ Head(deps).module_name = Str(m.ctx[k].arg)
                /\ Head(deps).module_revision = Str(Revisions[m.ctx[k].revision])
    THEN DependencyWarnings(TRUE, Tail(deps), m)
    ELSE IF Head(deps).module_revision.t = "absent"
    THEN \* "@" + None
         [error |-> Raise("TypeError", "can only concatenate str"), output |-> <<>>]
    ELSE Only({
            [error |-> rest.error,
             output |-> <<Out("WARNING, Dependency revision not found", "",
                              Head(deps).module_name.s, 0,
                              Head(deps).module_revision.s)>> \o rest.output] :
            rest \in {DependencyWarnings(TRUE, Tail(deps), m)}})

\* sid.py:670-726.  scalars holds the members of self.content that hold one value.
validate_against_module(scalars, has_deps, deps, items, m) ==
    LET name_ok == scalars["module-name"] = Str(m.ctx[SubjectOf(m)].arg)
        revision_ok == scalars["module-revision"] =
                           Str(get_latest_revision(m, SubjectOf(m)))
        head == (IF name_ok THEN <<>> ELSE <<Say("module name mismatch")>>)
                \o (IF revision_ok THEN <<>> ELSE <<Say("module revision mismatch")>>)
    IN Only({
        IF warned.error # NoError
        THEN [valid |-> FALSE, error |-> warned.error, output |-> head \o warned.output]
        ELSE Only({
            IF checked.error # NoError THEN checked
            ELSE IF ~checked.valid
            THEN [valid |-> FALSE, output |-> checked.output,
                  error |-> Raise("SidFileError", ".sid file does not match .yang file.")]
            ELSE [valid |-> TRUE, error |-> NoError,
                  output |-> checked.output \o <<Say("Check complete")>>] :
            checked \in {CheckItems(m, items, name_ok /\ revision_ok,
                                    head \o warned.output)}}) :
        warned \in {DependencyWarnings(has_deps, deps, m)}})

-----------------------------------------------------------------------------
(* Identifier assignment: assign_sid and gen_sids *)

\* sorted((entry-point, size) ...): tuples compare by entry point, then size
RangeTupleLt(a, b) ==
    \/ a.entry_point < b.entry_point
    \/ a.entry_point = b.entry_point /\ a.size < b.size

\* sid.py:961-975: the inner while of gen_sids; it moves used_idx past the
\* used sids below sid
RECURSIVE SkipUsedBelow(_, _, _)
SkipUsedBelow(used, used_idx, sid) ==
    IF used_idx <= Len(used) /\ used[used_idx] < sid
    THEN SkipUsedBelow(used, used_idx + 1, sid)
    ELSE used_idx

\* the sids sid, sid+1, ..., stop-1 (sid.py:977-979)
YieldUpTo(sid, stop) == [i \in 1..(stop - sid) |-> sid + i - 1]

\* sid.py:959-979: the sweep of one range, "while sid < high".  used_idx is
\* the 1-based position of used[used_idx] of the source.  The result is the
\* list of sids yielded and the position used_idx was left at.
RECURSIVE SweepRange(_, _, _, _, _)
SweepRange(used, sid, high, used_idx, yielded) ==
    IF ~(sid < high) THEN [yielded |-> yielded, used_idx |-> used_idx]
    ELSE LET idx == SkipUsedBelow(used, used_idx, sid)
         IN IF idx > Len(used)
            THEN \* no more used sids: stop = high
                 SweepRange(used, high, high, idx, yielded \o YieldUpTo(sid, high))
            ELSE LET stop == used[idx]
                 IN IF stop = sid
                    THEN \* go past the used sid, recheck sid < high
                         SweepRange(used, sid + 1, high, idx, yielded)
                    ELSE LET stop2 == IF stop > high THEN high ELSE stop
                         IN SweepRange(used, stop2, high, idx,
                                       yielded \o YieldUpTo(sid, stop2))

RECURSIVE SweepRanges(_, _, _, _)
SweepRanges(used, ranges, used_idx, yielded) ==
    IF ranges = <<>> THEN yielded
    ELSE Only({
            SweepRanges(used, Tail(ranges), swept.used_idx, yielded \o swept.yielded) :
            swept \in {SweepRange(used, Head(ranges).entry_point,
                                  Head(ranges).entry_point + Head(ranges).size,
                                  used_idx, <<>>)}})

\* gen_sids with the ranges sorted by size alone
gen_sids_by_size(ranges, used) ==
    SweepRanges(used, StableSort(ranges, LAMBDA a, b : a.size < b.size), 1, <<>>)

\* gen_sids without sorted(): the ranges swept in the order they are declared in
gen_sids_in_declared_order(ranges, used) ==
    SweepRanges(used, ranges, 1, <<>>)

\* sid.py:952-979: every sid the generator yields before it is exhausted
gen_sids(ranges, used) ==
    SweepRanges(used, StableSort(ranges, RangeTupleLt), 1, <<>>)

\* the loop of assign_sid without "needed -= 1": the error counts every
\* unassigned item
RECURSIVE AssignFromCountingAll(_, _, _, _)
AssignFromCountingAll(items, i, source, k) ==
    IF i > Len(items) THEN [items |-> items, error |-> "", needed |-> 0]
    ELSE IF items[i].sid # Unassigned THEN AssignFromCountingAll(items, i + 1, source, k)
    ELSE IF k + 1 > Len(source)
         THEN [items |-> items, error |-> "RangeExhausted",
               needed |-> k + Cardinality({j \in i..Len(items) : items[j].sid = Unassigned})]
         ELSE AssignFromCountingAll([items EXCEPT ![i].sid = source[k + 1]], i + 1,
                                    source, k + 1)

\* sid.py:936-944: the for loop of assign_sid over the unassigned items;
\* k counts the sids taken from the generator
RECURSIVE AssignFrom(_, _, _, _)
AssignFrom(items, i, source, k) ==
    IF i > Len(items) THEN [items |-> items, error |-> "", needed |-> 0]
    ELSE IF items[i].sid # Unassigned THEN AssignFrom(items, i + 1, source, k)
    ELSE IF k + 1 > Len(source)
         THEN [items |-> items, error |-> "RangeExhausted",
               needed |-> Cardinality({j \in i..Len(items) : items[j].sid = Unassigned})]
         ELSE AssignFrom([items EXCEPT ![i].sid = source[k + 1]], i + 1, source, k + 1)

\* [item['sid'] for item in items if item['sid'] != -1]
RECURSIVE AssignedSids(_)
AssignedSids(items) ==
    IF items = <<>> THEN <<>>
    ELSE IF Head(items).sid # Unassigned
         THEN <<Head(items).sid>> \o AssignedSids(Tail(items))
         ELSE AssignedSids(Tail(items))

UsedSids(items) == sorted(AssignedSids(items))

\* sid.py:927-944
assign_sid(ranges, items) ==
    IF \A i \in DOMAIN items : items[i].sid # Unassigned
    THEN [items |-> items, error |-> "", needed |-> 0, generated |-> <<>>]
    ELSE Only({
            Only({
                [items |-> assigned.items, error |-> assigned.error,
                 needed |-> assigned.needed, generated |-> source] :
                assigned \in {AssignFrom(items, 1, source, 0)}}) :
            source \in {gen_sids(ranges, UsedSids(items))}})

-----------------------------------------------------------------------------
(* Reports: list_all_items and list_deleted_items *)

\* sid.py:982-999
RECURSIVE ListedItems(_, _)
ListedItems(items, sid_file_created) ==
    IF items = <<>> THEN <<>>
    ELSE LET item == Head(items)
             note == IF item.status = "d" /\ item.namespace # "module" THEN " (Remove)"
                     ELSE IF item.status = "n" /\ ~sid_file_created THEN " (New)"
                     ELSE ""
         IN <<Out("item", item.namespace, item.identifier, item.sid, note)>>
            \o ListedItems(Tail(items), sid_file_created)

list_all_items(items, sid_file_created) ==
    LET lines == ListedItems(items, sid_file_created)
    IN lines \o (IF \E i \in DOMAIN lines : lines[i].note = " (Remove)"
                 THEN <<Say("WARNING, obsolete definitions")>> ELSE <<>>)

\* sid.py:1002-1013
RECURSIVE DeletedItems(_)
DeletedItems(items) ==
    IF items = <<>> THEN <<>>
    ELSE (IF Head(items).status = "d"
          THEN <<Out("WARNING, item was deleted", "", Head(items).identifier, 0, "")>>
          ELSE <<>>) \o DeletedItems(Tail(items))

list_deleted_items(items) ==
    LET lines == DeletedItems(items)
    IN lines \o (IF lines # <<>> THEN <<Say("Obsolete definitions MUST NOT be removed")>>
                 ELSE <<>>)

-----------------------------------------------------------------------------
(* Writing the document: generate_file and preprocess_content *)

\* sid.py:1040-1056: the members in the order of the YANG model; move() skips
\* the members the dictionary does not hold
CanonicalKeys == << "module-name", "module-revision", "sid-file-version",
                    "sid-file-status", "description", "dependency-revision",
                    "assignment-range", "item" >>

RECURSIVE reorder_per_yang_model(_, _)
reorder_per_yang_model(c, names) ==
    IF names = <<>> THEN <<>>
    ELSE LET name == Head(names)
             held == IF name \in ScalarFields THEN c.scalars[name] # Absent
                     ELSE IF name = "dependency-revision" THEN c.deps # <<>>
                     ELSE TRUE  \* 'assignment-range' and 'item' are held when a file is written
         IN (IF held THEN <<name>> ELSE <<>>) \o reorder_per_yang_model(c, Tail(names))

\* sid.py:1060-1075: an integer entry-point, size and sid becomes str(value)
convert_yang_uin64_values(c) ==
    [ranges |-> [i \in DOMAIN c.ranges |->
                    [entry_point |-> Str(PyStr(c.ranges[i].entry_point)),
                     size |-> Str(PyStr(c.ranges[i].size))]],
     items |-> [i \in DOMAIN c.items |->
                    [namespace |-> Str(c.items[i].namespace),
                     identifier |-> Str(c.items[i].identifier),
                     sid |-> Str(PyStr(c.items[i].sid))]]]

\* sid.py:1027-1036: the document json.dump writes
preprocess_content(c) ==
    LET converted == convert_yang_uin64_values(c)
    IN [top |-> <<WrapperKey>>,
        keys |-> reorder_per_yang_model(c, CanonicalKeys),
        scalars |-> c.scalars,
        deps |-> [i \in DOMAIN c.deps |->
                     [module_name |-> Str(c.deps[i].module_name),
                      module_revision |-> Str(c.deps[i].module_revision)]],
        ranges |-> converted.ranges,
        items |-> converted.items]

-----------------------------------------------------------------------------
(* process_sid_file *)

\* self.content of a new SidFile object: an empty dictionary
EmptyContent == [scalars |-> [name \in ScalarFields |-> Absent], deps |-> <<>>,
                 ranges |-> <<>>, items |-> <<>>]

\* a command-line range argument: none, 'count', '<entry-point>:<size>', or
\* a string the pattern of set_sid_range does not match
NoArg == [kind |-> "none", entry_point |-> 0, size |-> 0]
CountArg == [kind |-> "count", entry_point |-> 0, size |-> 0]
InvalidArg == [kind |-> "invalid", entry_point |-> 0, size |-> 0]
RangeArg(entry_point, size) == [kind |-> "range", entry_point |-> entry_point, size |-> size]

\* the state of a run of process_sid_file: self.content, self.is_consistent,
\* the exception raised, the lines printed, the file on disk, whether the
\* method has returned
RunState(c, is_cons, err, printed, f, gen, returned) ==
    [content |-> c, is_consistent |-> is_cons, error |-> err, output |-> printed,
     file |-> f, generated |-> gen, returned |-> returned]

Over(st) == st.error # NoError \/ st.returned
Failed(st, err) == [st EXCEPT !.error = err]

\* set_sid_range with the two groups of the pattern taken in the other order
set_sid_range_size_first(st, arg) ==
    IF arg.kind # "range"
    THEN Failed(st, Raise("SidParsingError", "invalid range in argument"))
    ELSE [st EXCEPT !.content.ranges =
              Append(@, [entry_point |-> arg.size, size |-> arg.entry_point])]

\* sid.py:407-417
set_sid_range(st, arg) ==
    IF arg.kind # "range"
    THEN Failed(st, Raise("SidParsingError", "invalid range in argument"))
    ELSE [st EXCEPT !.content.ranges =
              Append(@, [entry_point |-> arg.entry_point, size |-> arg.size])]

\* the members of a range or an item with int() applied (sid.py:546, 555, 592)
ConvertedRanges(f) ==
    [i \in DOMAIN f.ranges |-> [entry_point |-> Uint64Value(f.ranges[i].entry_point),
                                size |-> Uint64Value(f.ranges[i].size)]]
ConvertedItems(f) ==
    [i \in DOMAIN f.items |-> [namespace |-> f.items[i].namespace,
                               identifier |-> f.items[i].identifier,
                               sid |-> Uint64Value(f.items[i].sid)]]

\* the dictionaries of the items as the methods behind validation read them
PlainItems(items) ==
    [i \in DOMAIN items |->
        [namespace |-> IF items[i].namespace.t = "absent" THEN Missing
                       ELSE items[i].namespace.s,
         identifier |-> IF items[i].identifier.t = "absent" THEN Missing
                        ELSE items[i].identifier.s,
         sid |-> items[i].sid.n, status |-> ""]]
PlainRanges(ranges) ==
    [i \in DOMAIN ranges |-> [entry_point |-> ranges[i].entry_point.n,
                              size |-> ranges[i].size.n]]
WireRanges(ranges) ==
    [i \in DOMAIN ranges |-> [entry_point |-> Num(ranges[i].entry_point),
                              size |-> Num(ranges[i].size)]]

\* the members of the sid-file object that hold one value, under their short names
LoadedScalars(f) ==
    [name \in ScalarFields |-> IF HasKey(f, name) THEN f.scalars[name] ELSE Absent]

\* validate_sid in front of validate_overlapping_ranges
SidThenRangeError(ranges, items) ==
    IF validate_sid(ranges, items).error # NoError THEN validate_sid(ranges, items)
    ELSE [error |-> validate_overlapping_ranges(ranges), items |-> items]

\* sid.py:331-332: validate_overlapping_ranges, then validate_sid
RangeThenSidError(ranges, items) ==
    IF validate_overlapping_ranges(ranges) # NoError
    THEN [error |-> validate_overlapping_ranges(ranges), items |-> items]
    ELSE validate_sid(ranges, items)

\* sid.py:316-333: reading and validating the input file
LoadFile(o, m, st) ==
    IF st.file = NoFile THEN Failed(st, Raise("EnvironmentError", "file not found"))
    ELSE LET f == st.file
             ranges == ConvertedRanges(f)
             items == ConvertedItems(f)
             scalars == LoadedScalars(f)
         IN Only({
            IF structure # NoError THEN Failed(st, structure)
            ELSE Only({
                IF against.error # NoError
                THEN [st EXCEPT !.error = against.error, !.output = against.output]
                ELSE Only({
                    IF sids.error # NoError
                    THEN [st EXCEPT !.error = sids.error, !.output = against.output]
                    ELSE [st EXCEPT !.output = against.output,
                                    !.returned = (o.mode = "valid"),
                                    !.content =
                                        [scalars |-> scalars,
                                         deps |-> [i \in DOMAIN f.deps |->
                                             [module_name |-> f.deps[i].module_name.s,
                                              module_revision |->
                                                  f.deps[i].module_revision.s]],
                                         ranges |-> PlainRanges(ranges),
                                         items |-> PlainItems(sids.items)]] :
                    sids \in {RangeThenSidError(ranges, items)}}) :
                against \in {IF o.mode = "valid"
                             THEN validate_against_module(scalars,
                                                          HasKey(f, "dependency-revision"),
                                                          f.deps, PlainItems(items), m)
                             ELSE [valid |-> TRUE, error |-> NoError, output |-> <<>>]}}) :
            structure \in {FirstError(<<strip_wrapper(f), validate_key_and_value(f)>>)}})

\* sid.py:335-340
AddExtraRange(o, st) ==
    IF Over(st) \/ o.extra_range.kind \in {"none", "count"} THEN st
    ELSE Only({
            IF added.error # NoError THEN added
            ELSE Failed(added,
                        validate_overlapping_ranges(WireRanges(added.content.ranges))) :
            added \in {set_sid_range(st, o.extra_range)}})

\* set_module_information with the flag reset whenever the name or the
\* revision differs, not only under --sid-check-file
set_module_information_marking_dirty(o, m, st) ==
    LET name == Str(m.ctx[SubjectOf(m)].arg)
        revision == Str(get_latest_revision(m, SubjectOf(m)))
        name_differs == name # st.content.scalars["module-name"]
        revision_differs == revision # st.content.scalars["module-revision"]
        report == o.mode = "check"
    IN [st EXCEPT !.content.scalars["module-name"] = name,
                  !.content.scalars["module-revision"] = revision,
                  !.is_consistent = IF name_differs \/ revision_differs THEN FALSE ELSE @,
                  !.output = @ \o (IF report /\ name_differs
                                   THEN <<Say("ERROR, Mismatch between the module name")>>
                                   ELSE <<>>)
                               \o (IF report /\ revision_differs
                                   THEN <<Say("ERROR, Mismatch between the module revision")>>
                                   ELSE <<>>)]

\* sid.py:421-434
set_module_information(o, m, st) ==
    LET name == Str(m.ctx[SubjectOf(m)].arg)
        revision == Str(get_latest_revision(m, SubjectOf(m)))
        name_differs == name # st.content.scalars["module-name"]
        revision_differs == revision # st.content.scalars["module-revision"]
        report == o.mode = "check"
    IN [st EXCEPT !.content.scalars["module-name"] = name,
                  !.content.scalars["module-revision"] = revision,
                  !.is_consistent = IF report /\ (name_differs \/ revision_differs)
                                    THEN FALSE ELSE @,
                  !.output = @ \o (IF report /\ name_differs
                                   THEN <<Say("ERROR, Mismatch between the module name")>>
                                   ELSE <<>>)
                               \o (IF report /\ revision_differs
                                   THEN <<Say("ERROR, Mismatch between the module revision")>>
                                   ELSE <<>>)]

\* sid.py:811-823
RECURSIVE collect_dependency_revision(_, _)
collect_dependency_revision(m, k) ==
    IF k > Len(m.ctx) THEN <<>>
    ELSE (IF k # SubjectOf(m) /\ m.ctx[k].keyword # "submodule"
          THEN <<[module_name |-> m.ctx[k].arg,
                  module_revision |-> get_latest_revision(m, k)]>>
          ELSE <<>>) \o collect_dependency_revision(m, k + 1)

\* sid.py:342-344
Reconcile(o, m, st) ==
    IF Over(st) THEN st
    ELSE Only({
            Only({
                [informed EXCEPT !.content.deps = collect_dependency_revision(m, 1),
                                 !.content.items = merged.items,
                                 !.is_consistent = merged.is_consistent,
                                 !.error = merged.error] :
                merged \in {collect_module_items(informed.content.items,
                                                 informed.is_consistent, m)}}) :
            informed \in {set_module_information(o, m, st)}})

\* sid.py:1078-1088
number_of_sids_allocated(c) == SeqSum([i \in DOMAIN c.ranges |-> c.ranges[i].size])
number_of_unassigned_yang_items(c) ==
    Cardinality({i \in DOMAIN c.items : c.items[i].sid = Unassigned})
number_of_sids_used(c) ==
    Cardinality({i \in DOMAIN c.items : c.items[i].sid # Unassigned})

\* sid.py:346-366: the two 'count' requests print and return
Count(o, st) ==
    IF Over(st) THEN st
    ELSE IF o.range.kind = "count"
    THEN [st EXCEPT !.returned = TRUE,
                    !.output = @ \o <<Out("This YANG module requires SIDs", "", "",
                                          number_of_unassigned_yang_items(st.content), "")>>]
    ELSE IF o.extra_range.kind = "count"
    THEN LET available == number_of_sids_allocated(st.content)
                          - number_of_sids_used(st.content)
             unassigned == number_of_unassigned_yang_items(st.content)
         IN [st EXCEPT !.returned = TRUE,
                       !.output = @ \o
                           <<Out("Number of SIDs allocated", "", "",
                                 number_of_sids_allocated(st.content), ""),
                             Out("Number of SIDs required", "", "",
                                 number_of_sids_used(st.content) + unassigned, ""),
                             IF unassigned > available
                             THEN Out("An extra range is required", "", "",
                                      unassigned - available, "")
                             ELSE Say("The update can be performed")>>]
    ELSE st

\* sid.py:368-369
Allocate(st) ==
    IF Over(st) THEN st
    ELSE Only({
            IF sorted_items.error # NoError
            THEN [st EXCEPT !.content.items = sorted_items.items,
                            !.error = sorted_items.error]
            ELSE Only({
                [st EXCEPT !.content.items = assigned.items,
                           !.generated = assigned.generated,
                           !.error = IF assigned.error = "" THEN NoError
                                     ELSE RaiseN("SidParsingError",
                                                 "The current SID range(s) are exhausted",
                                                 assigned.needed)] :
                assigned \in {assign_sid(st.content.ranges, sorted_items.items)}}) :
            sorted_items \in {sort_items(st.content.items)}})

\* sid.py:371-374
Report(o, st) ==
    IF Over(st) THEN st
    ELSE [st EXCEPT !.output = @ \o
             (IF o.list_content
              THEN list_all_items(st.content.items, o.mode = "generate")
              ELSE list_deleted_items(st.content.items))]

\* sid.py:376-382
BumpVersion(o, st) ==
    IF Over(st) \/ o.mode # "update" THEN st
    ELSE [st EXCEPT !.content.scalars["sid-file-version"] =
             IF @ = Absent THEN Num(1) ELSE Num(@.n + 1)]

\* sid.py:1016-1024
generate_file(st) ==
    LET stripped == [st.content EXCEPT !.items =
                        [i \in DOMAIN @ |-> [@[i] EXCEPT !.status = ""]]]
    IN [st EXCEPT !.content = stripped, !.file = preprocess_content(stripped)]

\* the conclusion without its tests: the file is written whatever the run
\* was asked for and whether or not the content changed
ConcludeAlwaysWriting(o, st) ==
    IF Over(st) THEN st
    ELSE [generate_file(st) EXCEPT !.returned = TRUE]

\* sid.py:384-403
Conclude(o, st) ==
    IF Over(st) THEN st
    ELSE IF o.mode = "check"
    THEN IF st.is_consistent
         THEN IF o.sid_registration_info
              THEN \* sid.py:1107 calls the dictionary self.content
                   Failed(st, Raise("TypeError", "'OrderedDict' object is not callable"))
              ELSE [st EXCEPT !.returned = TRUE,
                              !.output = @ \o <<Say("Check completed successfully")>>]
         ELSE [st EXCEPT !.returned = TRUE,
                         !.output = @ \o <<Say("The .sid file needs to be updated.")>>]
    ELSE IF st.is_consistent
    THEN [st EXCEPT !.returned = TRUE,
                    !.output = @ \o <<Say("No .sid file generated")>>]
    ELSE LET written == generate_file(st)
         IN [written EXCEPT !.returned = TRUE,
                 !.output = @ \o
                     <<Say(IF o.mode = "generate" THEN "File created" ELSE "File updated"),
                       Out("Number of SIDs available", "", "",
                           number_of_sids_allocated(written.content), ""),
                       Out("Number of SIDs used", "", "",
                           number_of_sids_used(written.content), "")>>]

\* sid.py:310-333: the range argument of --sid-generate-file, or the input file
Begin(o, m, f) ==
    LET st == RunState(EmptyContent, o.mode # "generate", NoError, <<>>, f, <<>>, FALSE)
    IN IF o.mode = "generate"
       THEN IF o.range.kind = "count" THEN st ELSE set_sid_range(st, o.range)
       ELSE LoadFile(o, m, st)

\* sid.py:305-403, with the fields post_validate_ctx sets (sid.py:113-146)
process_sid_file(o, m, f) ==
    Conclude(o, BumpVersion(o, Report(o, Allocate(Count(o,
        Reconcile(o, m, AddExtraRange(o, Begin(o, m, f))))))))

-----------------------------------------------------------------------------
(* Runs of pyang on one document: each run reads the document the run      *)
(* before it wrote                                                         *)

Options(mode, range, extra_range, list_content, sid_registration_info) ==
    [mode |-> mode, range |-> range, extra_range |-> extra_range,
     list_content |-> list_content, sid_registration_info |-> sid_registration_info]

NoOptions == Options("", NoArg, NoArg, FALSE, FALSE)

\* the statement of a module or submodule in module.i_ctx.modules
ModuleStatement(keyword, arg, revision, including) ==
    [keyword |-> keyword, arg |-> arg, revision |-> revision, including |-> including]

SchemaNode(arg, keyword, i_module, parent, root) ==
    [arg |-> arg, keyword |-> keyword, i_module |-> i_module, parent |-> parent,
     root |-> root]

\* module m at some revision, with some features and identities, with or
\* without a container c
Toaster(revision, features, identities, with_data) ==
    [ctx |-> <<ModuleStatement("module", "m", revision, "")>>,
     features |-> features, identities |-> identities,
     nodes |-> IF with_data THEN <<SchemaNode("c", "container", 1, 0, 1)>> ELSE <<>>,
     augments |-> <<>>, imports |-> FALSE]

\* the successive editions of module m: features are added and dropped
Toasters == {Toaster(1, features, <<>>, FALSE) :
                features \in {<<>>, <<"f">>, <<"a">>, <<"a", "f">>}}

\* a document of module m written by hand, with these ranges and items
Document(ranges, items) ==
    [top |-> <<WrapperKey>>,
     keys |-> <<"module-name", "module-revision", "assignment-range", "item">>,
     scalars |-> [name \in ScalarFields |->
                     IF name = "module-name" THEN Str("m")
                     ELSE IF name = "module-revision" THEN Str(Revisions[1])
                     ELSE Absent],
     deps |-> <<>>, ranges |-> ranges, items |-> items]

\* one range and the item of module m at its entry point
SeedFile(entry_point, size) ==
    Document(<<[entry_point |-> Str(PyStr(entry_point)), size |-> Str(PyStr(size))]>>,
             <<[namespace |-> Str("module"), identifier |-> Str("m"),
                sid |-> Str(PyStr(entry_point))]>>)

\* the documents found on disk before the first run
SeedFiles == {SeedFile(-2, 3), SeedFile(0, 1), SeedFile(1, 0)}

\* the values given to --sid-generate-file and to --sid-extra-range
GenerateArgs == {CountArg, InvalidArg, RangeArg(0, 1), RangeArg(0, 3)}

ExtraRangeArgs == {NoArg, CountArg, RangeArg(3, 1)}

Init ==
    /\ file \in {NoFile} \cup SeedFiles
    /\ content = EmptyContent
    /\ opts = NoOptions
    /\ is_consistent = TRUE
    /\ error = NoError
    /\ output = <<>>
    /\ generated = <<>>
    /\ yang_module = Toaster(1, <<>>, <<>>, FALSE)
    /\ pc = "start"

\* one run of pyang: post_validate_ctx builds the SidFile object and calls
\* process_sid_file
Run(o, m) ==
    \E st \in {process_sid_file(o, m, file)} :
        /\ file' = st.file
        /\ content' = st.content
        /\ opts' = o
        /\ is_consistent' = st.is_consistent
        /\ error' = st.error
        /\ output' = st.output
        /\ generated' = st.generated
        /\ yang_module' = m
        /\ pc' = "done"

\* pyang --sid-generate-file {count | entry-point:size} [--sid-list]
Generate ==
    \E m \in Toasters, range \in GenerateArgs,
       list_content \in BOOLEAN :
        /\ Run(Options("generate", range, NoArg, list_content, FALSE), m)

\* pyang --sid-update-file file [--sid-extra-range {count | entry-point:size}] [--sid-list]
Update ==
    \E m \in Toasters, extra_range \in ExtraRangeArgs,
       list_content \in BOOLEAN :
        /\ extra_range.kind = "range" => Len(file.ranges) < MaxRanges
        /\ Run(Options("update", NoArg, extra_range, list_content, FALSE), m)

\* pyang --sid-check-file file [--sid-list] [--sid-registration-info]
CheckFile ==
    \E m \in Toasters, list_content \in BOOLEAN, sid_registration_info \in BOOLEAN :
        /\ Run(Options("check", NoArg, NoArg, list_content, sid_registration_info), m)

\* pyang --sid-check-file-valid file
CheckFileValid ==
    \E m \in Toasters :
        /\ Run(Options("valid", NoArg, NoArg, FALSE, FALSE), m)

Next == Generate \/ Update \/ CheckFile \/ CheckFileValid

Spec == Init /\ [][Next]_vars

-----------------------------------------------------------------------------
(* Identifier assignment on its own: assign_sid on a loaded content         *)

\* the most ranges and items of a content given to assign_sid
MaxAllocRanges == 2
MaxAllocItems == 4

\* (entry-point, size) of the ranges of these contents
AllocRanges == { <<100, 5>>, <<100, 2>>, <<3, 0>>, <<-2, 3>> }

\* the identifiers of the items, in the order sort_items leaves them in
AllocIdentifiers == << "a", "f", "i", "s", "z" >>

RangeOf(pair) == [entry_point |-> pair[1], size |-> pair[2]]

\* the lists of ranges validate_overlapping_ranges accepts
AllocRangeLists ==
    {ranges \in UNION {[1..n -> {RangeOf(pair) : pair \in AllocRanges}] :
                          n \in 1..MaxAllocRanges} :
        validate_overlapping_ranges(WireRanges(ranges)) = NoError}

IdsOf(ranges) ==
    UNION {r.entry_point .. (r.entry_point + r.size - 1) : r \in Range(ranges)}

\* the sids of the items of a content: the items that hold one hold distinct
\* sids of the ranges (validate_sid), here in ascending or descending order
AllocSids(ranges) ==
    {sids \in UNION {[1..n -> (IdsOf(ranges) \ {Unassigned}) \cup {Unassigned}] :
                        n \in 0..MaxAllocItems} :
        LET held == {i \in DOMAIN sids : sids[i] # Unassigned}
        IN \/ \A i, j \in held : i < j => sids[i] < sids[j]
           \/ \A i, j \in held : i < j => sids[i] > sids[j]}

\* the items of a content after sort_items
AllocItems(sids) ==
    [i \in DOMAIN sids |-> [namespace |-> "feature", identifier |-> AllocIdentifiers[i],
                            sid |-> sids[i], status |-> "o"]]

InitAlloc ==
    /\ \E ranges \in AllocRangeLists : \E sids \in AllocSids(ranges) :
          content = [EmptyContent EXCEPT !.ranges = ranges, !.items = AllocItems(sids)]
    /\ file = NoFile
    /\ opts = NoOptions
    /\ is_consistent = TRUE
    /\ error = NoError
    /\ output = <<>>
    /\ generated = <<>>
    /\ yang_module = Toaster(1, <<>>, <<>>, FALSE)
    /\ pc = "start"

\* self.assign_sid() (sid.py:369)
AssignSid ==
    /\ pc = "start"
    /\ \E assigned \in {assign_sid(content.ranges, content.items)} :
          /\ content' = [content EXCEPT !.items = assigned.items]
          /\ generated' = assigned.generated
          /\ error' = IF assigned.error = "" THEN NoError
                      ELSE RaiseN("SidParsingError",
                                  "The current SID range(s) are exhausted", assigned.needed)
    /\ pc' = "done"
    /\ UNCHANGED <<file, opts, is_consistent, output, yang_module>>

NextAlloc == AssignSid

SpecAlloc == InitAlloc /\ [][NextAlloc]_vars

-----------------------------------------------------------------------------
(* Properties of identifier assignment *)

\* the positions of the items without a sid, and the sids held by the others
UnassignedItems(c) == {i \in DOMAIN c.items : c.items[i].sid = Unassigned}
HeldSids(c) == {c.items[i].sid : i \in DOMAIN c.items \ UnassignedItems(c)}

\* the sids of the ranges no item holds
FreeSids(c) == IdsOf(c.ranges) \ HeldSids(c)

StrictlyAscending(seq) == \A i \in 1..(Len(seq) - 1) : seq[i] < seq[i + 1]

\* the position of the k-th item without a sid
KthUnassigned(c, k) ==
    CHOOSE i \in UnassignedItems(c) :
        Cardinality({j \in UnassignedItems(c) : j < i}) = k - 1

\* C5: for disjoint ranges and the sids in use, the allocator yields exactly
\* the sids that lie in some range and are not in use, in strictly ascending
\* order, and the k-th item without a sid receives the k-th smallest of them.
AllocationMinimality ==
    [][AssignSid /\ UnassignedItems(content) # {} =>
          /\ StrictlyAscending(generated')
          /\ Range(generated') = FreeSids(content)
          /\ \A k \in 1..Cardinality(UnassignedItems(content)) :
                k <= Len(generated') =>
                    content'.items[KthUnassigned(content, k)].sid = generated'[k]]_vars

\* C5: range (100, 5) with 100 and 102 in use and two items to number: they
\* receive 101 and 103
AllocationExample ==
    /\ pc = "done"
    /\ content.ranges = <<[entry_point |-> 100, size |-> 5]>>
    /\ [i \in DOMAIN content.items |-> content.items[i].sid] = <<100, 101, 102, 103>>
    /\ generated = <<101, 103, 104>>

\* C6: when more items lack a sid than the ranges hold free sids, the
\* assignment fails with the error of exhausted ranges, and the number the
\* error reports is the number of items without a sid minus the number of
\* free sids; otherwise it does not fail.
ExhaustionDeficit ==
    [][AssignSid =>
          LET unassigned == Cardinality(UnassignedItems(content))
              free == Cardinality(FreeSids(content))
          IN IF unassigned > free
             THEN /\ error'.class = "SidParsingError"
                  /\ error'.msg = "The current SID range(s) are exhausted"
                  /\ error'.n = unassigned - free
             ELSE error' = NoError]_vars

\* C6: range (100, 2) with both sids in use and one item to number: the
\* error reports 1
ExhaustionExample ==
    /\ pc = "done"
    /\ content.ranges = <<[entry_point |-> 100, size |-> 2]>>
    /\ HeldSids(content) = {100, 101}
    /\ Cardinality(UnassignedItems(content)) = 1
    /\ error.class = "SidParsingError"
    /\ error.n = 1

-----------------------------------------------------------------------------
(* The range-overlap check on its own *)

\* the lists of at most MaxRanges ranges over the entry points and sizes
RangeLists ==
    UNION {[1..n -> [entry_point : EntryPoints, size : Sizes]] : n \in 0..MaxRanges}

InitRanges ==
    /\ \E ranges \in RangeLists : content = [EmptyContent EXCEPT !.ranges = ranges]
    /\ file = NoFile
    /\ opts = NoOptions
    /\ is_consistent = TRUE
    /\ error = NoError
    /\ output = <<>>
    /\ generated = <<>>
    /\ yang_module = Toaster(1, <<>>, <<>>, FALSE)
    /\ pc = "start"

\* self.validate_overlapping_ranges() (sid.py:331, 340)
ValidateOverlappingRanges ==
    /\ pc = "start"
    /\ error' = validate_overlapping_ranges(WireRanges(content.ranges))
    /\ pc' = "done"
    /\ UNCHANGED <<file, content, opts, is_consistent, output, generated, yang_module>>

NextRanges == ValidateOverlappingRanges

SpecRanges == InitRanges /\ [][NextRanges]_vars

\* the list of ranges in the order p, a permutation of its positions
Reordered(ranges, p) == [i \in DOMAIN ranges |-> ranges[p[i]]]

\* "a < b+sb and b < a+sa" for the ranges [a, a+sa) and [b, b+sb)
IntervalsMeet(r1, r2) ==
    /\ r1.entry_point < r2.entry_point + r2.size
    /\ r2.entry_point < r1.entry_point + r1.size

\* the entry point of r1 is one of the sids of r2
EntryPointInside(r1, r2) ==
    r1.entry_point \in r2.entry_point .. (r2.entry_point + r2.size - 1)

OverlapRejected == error = Raise("SidFileError", "overlapping ranges are not allowed.")

-----------------------------------------------------------------------------
(* Loading a document: the validation of its members, ranges and sids *)

\* the entry points, sizes and sids written in the documents
LoadEntryPoints == {-2, 0}
LoadSizes == {Str("1"), Str("3"), Absent}
LoadSids == {-1, 0, 1, 3}

\* the documents: at most MaxRanges ranges (one may lack its size) and at
\* most MaxItems items
LoadRanges ==
    UNION {[1..n -> [entry_point : {Str(PyStr(e)) : e \in LoadEntryPoints},
                     size : LoadSizes]] : n \in 1..MaxRanges}

LoadItems ==
    UNION {{[i \in 1..n |-> [namespace |-> Str("feature"),
                             identifier |-> Str(AllocIdentifiers[i]),
                             sid |-> Str(PyStr(sids[i]))]] : sids \in [1..n -> LoadSids]} :
           n \in 0..MaxItems}

InitLoad ==
    /\ \E ranges \in LoadRanges, items \in LoadItems : file = Document(ranges, items)
    /\ content = EmptyContent
    /\ opts = Options("update", NoArg, NoArg, FALSE, FALSE)
    /\ is_consistent = TRUE
    /\ error = NoError
    /\ output = <<>>
    /\ generated = <<>>
    /\ yang_module = Toaster(1, <<>>, <<>>, FALSE)
    /\ pc = "start"

\* sid.py:316-333: the document is read and validated
LoadDocument ==
    /\ pc = "start"
    /\ \E st \in {LoadFile(opts, yang_module,
                           RunState(EmptyContent, TRUE, NoError, <<>>, file, <<>>, FALSE))} :
          /\ content' = st.content
          /\ error' = st.error
          /\ output' = st.output
    /\ pc' = "done"
    /\ UNCHANGED <<file, opts, is_consistent, generated, yang_module>>

NextLoad == LoadDocument

SpecLoad == InitLoad /\ [][NextLoad]_vars

-----------------------------------------------------------------------------
(* Properties of the validation of a loaded document *)

\* the ranges and sids a document declares, read as numbers
SizesPresent(f) == \A i \in DOMAIN f.ranges : f.ranges[i].size # Absent
SizesAbsent(f) == \A i \in DOMAIN f.ranges : f.ranges[i].size = Absent
DeclaredRanges(f) ==
    [i \in DOMAIN f.ranges |-> [entry_point |-> PyInt(f.ranges[i].entry_point.s).n,
                                size |-> PyInt(f.ranges[i].size.s).n]]
DeclaredSid(f, i) == PyInt(f.items[i].sid.s).n

\* the defects of a document whose ranges have their sizes
HasOverlap(f) ==
    \E i, j \in DOMAIN f.ranges :
        i # j /\ EntryPointInside(DeclaredRanges(f)[i], DeclaredRanges(f)[j])
OutOfRange(f, sid) == sid \notin IdsOf(DeclaredRanges(f))
Duplicated(f, sid) ==
    \E i, j \in DOMAIN f.items : i # j /\ DeclaredSid(f, i) = sid /\ DeclaredSid(f, j) = sid
HasOutOfRange(f) == \E i \in DOMAIN f.items : OutOfRange(f, DeclaredSid(f, i))
HasDuplicate(f) == \E i \in DOMAIN f.items : Duplicated(f, DeclaredSid(f, i))

\* the messages of the errors
SizeMissing == "mandatory field 'size' not present"
Overlapping == "overlapping ranges are not allowed."
NotWithin == "'sid' not within 'assignment-range'"
DuplicatedSid == "duplicated 'sid' value"

\* what a run reports: the error it raises and the lines it prints
Reported(msg) == error.msg = msg \/ \E i \in DOMAIN output : output[i].kind = msg

\* C8 as stated: the validation of the items of a loaded document (its members
\* are well formed, its ranges do not overlap) succeeds if and only if every
\* sid lies inside a declared range and no two items share a sid; when it
\* fails, it fails with the range error for a sid outside every range or with
\* the duplicate error for a sid held twice.
SidsValidIffInRangeAndDistinct ==
    pc = "done" /\ SizesPresent(file) /\ file.items # <<>> /\ ~HasOverlap(file) =>
        /\ error = NoError <=> ~HasOutOfRange(file) /\ ~HasDuplicate(file)
        /\ error # NoError =>
              \/ error.class = "SidFileError" /\ error.msg = NotWithin
                 /\ OutOfRange(file, error.n)
              \/ error.class = "SidFileError" /\ error.msg = DuplicatedSid
                 /\ Duplicated(file, error.n)

\* C10 as stated: a document with two independent defects, overlapping ranges
\* and a sid outside every range, has both reported by one validation run.
BothDefectsReported ==
    pc = "done" /\ SizesPresent(file) /\ HasOverlap(file) /\ HasOutOfRange(file) =>
        Reported(Overlapping) /\ Reported(NotWithin)

\* C10, corrected: validation stops at the first violation and reports
\* nothing else.  Missing members are reported before overlapping ranges,
\* overlapping ranges before sids outside the ranges or held twice, and of
\* these the one with the least sid.
FirstDefectReported ==
    pc = "done" =>
        /\ output = <<>>
        /\ SizesAbsent(file) =>
              error = Raise("SidFileError", SizeMissing)
        /\ SizesPresent(file) /\ file.items # <<>> /\ HasOverlap(file) =>
              error = Raise("SidFileError", Overlapping)
        /\ SizesPresent(file) /\ ~HasOverlap(file)
              /\ (HasOutOfRange(file) \/ HasDuplicate(file)) =>
              /\ error.class = "SidFileError"
              /\ error.msg \in {NotWithin, DuplicatedSid}
              /\ error.msg = NotWithin <=> OutOfRange(file, error.n)
              /\ \E i \in DOMAIN file.items : DeclaredSid(file, i) = error.n
              /\ \A i \in DOMAIN file.items :
                    OutOfRange(file, DeclaredSid(file, i))
                        \/ Duplicated(file, DeclaredSid(file, i))
                    => error.n <= DeclaredSid(file, i)

\* C10: a document with overlapping ranges and a sid outside them: only the
\* overlap is reported
OnlyOverlapReported ==
    /\ pc = "done"
    /\ SizesPresent(file) /\ HasOverlap(file) /\ HasOutOfRange(file) /\ HasDuplicate(file)
    /\ error = Raise("SidFileError", Overlapping)
    /\ ~Reported(NotWithin) /\ ~Reported(DuplicatedSid)

-----------------------------------------------------------------------------
(* Cross-reference validation of a document against the module *)

\* module m with feature f, identity i and container c holding leaf x; with
\* or without an imported module n holding container t
Kettle(with_import) ==
    [ctx |-> <<ModuleStatement("module", "m", 1, "")>>
             \o (IF with_import THEN <<ModuleStatement("module", "n", 1, "")>> ELSE <<>>),
     features |-> <<"f">>, identities |-> <<"i">>,
     nodes |-> <<SchemaNode("c", "container", 1, 0, 1), SchemaNode("x", "leaf", 1, 1, 1)>>
               \o (IF with_import THEN <<SchemaNode("t", "container", 2, 0, 2)>> ELSE <<>>),
     augments |-> <<>>, imports |-> with_import]

Kettles == {Kettle(with_import) : with_import \in BOOLEAN}

\* the items written in the documents: some name a definition of the
\* module, some do not
XrefKeys ==
    { Key("module", "m"), Key("feature", "f"), Key("feature", "z"), Key("identity", "i"),
      Key("data", "/m:c"), Key("data", "/m:c/x"), Key("data", "/m:d"), Key("data", "/c"),
      Key("data", "/q:x") }

\* a document with these items, numbered from the entry point of its range
XrefDocument(keys) ==
    Document(<<[entry_point |-> Str("0"), size |-> Str("3")]>>,
             [i \in DOMAIN keys |-> [namespace |-> Str(keys[i].namespace),
                                     identifier |-> Str(keys[i].identifier),
                                     sid |-> Str(PyStr(i - 1))]])

InitXref ==
    /\ \E keys \in UNION {[1..n -> XrefKeys] : n \in 1..MaxItems} :
          file = XrefDocument(keys)
    /\ yang_module \in Kettles
    /\ content = EmptyContent
    /\ opts = NoOptions
    /\ is_consistent = TRUE
    /\ error = NoError
    /\ output = <<>>
    /\ generated = <<>>
    /\ pc = "start"

\* pyang --sid-check-file-valid file, on the module compiled before
CheckValidity ==
    /\ pc = "start"
    /\ Run(Options("valid", NoArg, NoArg, FALSE, FALSE), yang_module)

NextXref == CheckValidity

SpecXref == InitXref /\ [][NextXref]_vars

\* does the module hold the definition the i-th item of the document names
Defined(f, i, m) ==
    LET namespace == f.items[i].namespace.s
        identifier == f.items[i].identifier.s
    IN \/ namespace = "module" /\ identifier = "m"
       \/ namespace = "feature" /\ identifier \in Range(m.features)
       \/ namespace = "identity" /\ identifier \in Range(m.identities)
       \/ namespace = "data" /\ identifier \in {"/m:c", "/m:c/x"}

\* a line of the output about the i-th item of the document
ReportedItem(f, i) ==
    \E k \in DOMAIN output :
        /\ output[k].namespace = f.items[i].namespace.s
        /\ output[k].identifier = f.items[i].identifier.s

\* C9 as stated: in check-validity mode every item of the document is
\* examined: each item that names no definition of the module is reported,
\* whatever the other items are, and the run then ends with the one aggregate
\* error (or with no error when every item matches).
EveryItemExamined ==
    pc = "done" =>
        /\ \A i \in DOMAIN file.items :
              ~Defined(file, i, yang_module) => ReportedItem(file, i)
        /\ error = IF \A i \in DOMAIN file.items : Defined(file, i, yang_module)
                   THEN NoError
                   ELSE Raise("SidFileError", ".sid file does not match .yang file.")

-----------------------------------------------------------------------------
(* Properties of successive runs on one document *)

\* the (namespace, identifier) and the sid of an item of a document
KeyOfEntry(entry) == Key(entry.namespace.s, entry.identifier.s)
SidOfEntry(entry) == PyInt(entry.sid.s).n

\* a run that allocates: generate or update, not one that only counts
AllocatingRun(o) ==
    /\ o.mode \in {"generate", "update"}
    /\ o.range.kind # "count"
    /\ o.extra_range.kind # "count"

\* C1 as stated: an update run reads the document the run before it wrote;
\* every item of that document keeps its sid in the document the run
\* leaves, and no other item of it holds that sid, whatever the module now
\* enumerates.
AppendOnlyStability ==
    [][opts'.mode = "update" =>
          \A i \in DOMAIN file.items :
              /\ \E j \in DOMAIN file'.items :
                    /\ KeyOfEntry(file'.items[j]) = KeyOfEntry(file.items[i])
                    /\ SidOfEntry(file'.items[j]) = SidOfEntry(file.items[i])
              /\ \A j \in DOMAIN file'.items :
                    SidOfEntry(file'.items[j]) = SidOfEntry(file.items[i])
                        => KeyOfEntry(file'.items[j]) = KeyOfEntry(file.items[i])]_vars

\* C2 as stated: after a generate or update run that ends without error,
\* every item holds a sid (not -1) that lies inside exactly one range of the
\* document and that no other item holds.
CollisionFreedom ==
    pc = "done" /\ AllocatingRun(opts) /\ error = NoError =>
        \A i \in DOMAIN content.items :
            /\ content.items[i].sid # Unassigned
            /\ Cardinality({k \in DOMAIN content.ranges :
                               content.items[i].sid \in IdsOf(<<content.ranges[k]>>)}) = 1
            /\ \A j \in DOMAIN content.items :
                  j # i => content.items[j].sid # content.items[i].sid

\* a line of the output that tells the item is obsolete
ReportedObsolete(lines, key) ==
    \E k \in DOMAIN lines :
        /\ lines[k].identifier = key.identifier
        /\ \/ lines[k].kind = "WARNING, item was deleted"
           \/ lines[k].namespace = key.namespace /\ lines[k].note = " (Remove)"

\* C3 as stated: when an update or check run loads a document holding an
\* item the module no longer enumerates, the item stays in the list with its
\* sid, in memory and in the document the run leaves, and the run reports the
\* item as obsolete.  (Runs that only count end before the report.)
DeletedEntriesRetained ==
    [][/\ opts'.mode \in {"update", "check"}
       /\ opts'.extra_range.kind # "count"
       /\ error' = NoError
       => \A i \in DOMAIN file.items :
              KeyOfEntry(file.items[i]) \notin Range(Enumeration(yang_module')) =>
                  /\ \E j \in DOMAIN content'.items :
                        /\ content'.items[j].namespace = KeyOfEntry(file.items[i]).namespace
                        /\ content'.items[j].identifier = KeyOfEntry(file.items[i]).identifier
                        /\ content'.items[j].sid = SidOfEntry(file.items[i])
                  /\ \E j \in DOMAIN file'.items :
                        /\ KeyOfEntry(file'.items[j]) = KeyOfEntry(file.items[i])
                        /\ SidOfEntry(file'.items[j]) = SidOfEntry(file.items[i])
                  /\ ReportedObsolete(output', KeyOfEntry(file.items[i]))]_vars

-----------------------------------------------------------------------------
(* The file on disk *)

\* a line of the output
Printed(kind) == \E k \in DOMAIN output : output[k].kind = kind

\* C11: a run changes the file on disk only if it is a generate or update
\* run that does not count, raises no error and found the content
\* inconsistent with the module; an update run that found nothing to
\* regenerate ends without error and tells so.
WrittenOnlyWhenDirty ==
    [][/\ file' # file =>
            /\ AllocatingRun(opts')
            /\ error' = NoError
            /\ ~is_consistent'
       /\ opts'.mode = "update" /\ error' = NoError /\ is_consistent'
          /\ opts'.extra_range.kind # "count" =>
            \E k \in DOMAIN output' : output'[k].kind = "No .sid file generated"]_vars

\* C11: an update run wrote the file: it holds an item more than the seed
UpdateWroteFile ==
    /\ pc = "done" /\ opts.mode = "update" /\ error = NoError
    /\ Printed("File updated")
    /\ file # NoFile /\ Len(file.items) > 1

-----------------------------------------------------------------------------
(* Reconciliation of a document that is up to date *)

\* the document lists the items the module enumerates, and no other
UpToDate(f, m) ==
    /\ f # NoFile
    /\ {KeyOfEntry(f.items[i]) : i \in DOMAIN f.items} = Range(Enumeration(m))

\* C12 as stated: an update or check run on a document that is up to date
\* with the module finds every item existing (status 'o'), adds no item and
\* takes no sid from the generator; the run leaves the document as it was, so
\* the same holds for the run after it.
Idempotence ==
    [][/\ opts'.mode \in {"update", "check"}
       /\ error' = NoError
       /\ UpToDate(file, yang_module')
       => /\ \A i \in DOMAIN content'.items : content'.items[i].status = "o"
          /\ Len(content'.items) = Len(file.items)
          /\ generated' = <<>>
          /\ file' = file]_vars

-----------------------------------------------------------------------------
(* Writing a content and reading it back: preprocess_content, then the      *)
(* load of process_sid_file                                                 *)

\* (entry-point, size) of the ranges of these contents
RoundRanges == { <<0, 3>>, <<3, 1>>, <<-2, 2>> }

\* the lists of ranges validate_overlapping_ranges accepts
RoundRangeLists ==
    {ranges \in UNION {[1..n -> {RangeOf(pair) : pair \in RoundRanges}] :
                          n \in 1..MaxRanges} :
        validate_overlapping_ranges(WireRanges(ranges)) = NoError}

\* the items of a content about to be written: distinct sids of the ranges,
\* in any order, the status deleted (sid.py:1017-1018)
RoundItems(ranges) ==
    {[i \in DOMAIN sids |-> [namespace |-> "feature", identifier |-> AllocIdentifiers[i],
                             sid |-> sids[i], status |-> ""]] :
        sids \in {s \in UNION {[1..n -> IdsOf(ranges)] : n \in 0..MaxItems} :
                     \A i, j \in DOMAIN s : i # j => s[i] # s[j]}}

InitRound ==
    /\ \E ranges \in RoundRangeLists, version \in {Absent, Num(1)} :
          \E items \in RoundItems(ranges) :
              content = [scalars |-> [name \in ScalarFields |->
                                         IF name = "module-name" THEN Str("m")
                                         ELSE IF name = "module-revision"
                                         THEN Str(Revisions[1])
                                         ELSE IF name = "sid-file-version" THEN version
                                         ELSE Absent],
                         deps |-> <<>>, ranges |-> ranges, items |-> items]
    /\ file = NoFile
    /\ opts = Options("update", NoArg, NoArg, FALSE, FALSE)
    /\ is_consistent = TRUE
    /\ error = NoError
    /\ output = <<>>
    /\ generated = <<>>
    /\ yang_module = Toaster(1, <<>>, <<>>, FALSE)
    /\ pc = "start"

\* json.dump(self.preprocess_content()) (sid.py:1023-1024), then the load of
\* a later run (sid.py:316-333)
WriteAndLoad ==
    /\ pc = "start"
    /\ \E written \in {preprocess_content(content)} :
          /\ file' = written
          /\ \E st \in {LoadFile(opts, yang_module,
                                 RunState(EmptyContent, TRUE, NoError, <<>>, written,
                                          <<>>, FALSE))} :
                /\ content' = st.content
                /\ error' = st.error
                /\ output' = st.output
    /\ pc' = "done"
    /\ UNCHANGED <<opts, is_consistent, generated, yang_module>>

NextRound == WriteAndLoad

SpecRound == InitRound /\ [][NextRound]_vars

-----------------------------------------------------------------------------
(* The outermost object of a document: strip_wrapper                        *)

\* the most members of the outermost object
MaxTopKeys == 3

\* the names of these members
TopKeys == {WrapperKey, "module-name", "x", "y"}

\* the members of a JSON object bear distinct names
Tops ==
    {top \in UNION {[1..n -> TopKeys] : n \in 0..MaxTopKeys} :
        \A i, j \in DOMAIN top : i # j => top[i] # top[j]}

\* documents that load when the wrapper is their only outermost member
WrappedFiles == {SeedFile(0, 1), SeedFile(0, 3), SeedFile(3, 1)}

InitWrap ==
    /\ \E f \in WrappedFiles, top \in Tops : file = [f EXCEPT !.top = top]
    /\ content = EmptyContent
    /\ opts = Options("update", NoArg, NoArg, FALSE, FALSE)
    /\ is_consistent = TRUE
    /\ error = NoError
    /\ output = <<>>
    /\ generated = <<>>
    /\ yang_module = Toaster(1, <<>>, <<>>, FALSE)
    /\ pc = "start"

NextWrap == LoadDocument

SpecWrap == InitWrap /\ [][NextWrap]_vars

\* C14 as stated: a document loads only if the wrapper is the one member of
\* its outermost object; any other outermost object, the wrapper with
\* another member beside it included, fails with an error about the format,
\* whatever the order of the members.
OnlyWrapperAccepted ==
    pc = "done" /\ file.top # <<WrapperKey>> =>
        /\ error.class = "SidFileError"
        /\ error.msg \in {"invalid field",
                          "mandatory object 'ietf-sid-file:sid-file' not present"}

-----------------------------------------------------------------------------
(* Properties of the structural validation of a document *)

\* the messages of the errors validate_key_and_value and the methods it
\* calls raise
StructuralMessages ==
    {"invalid field", "invalid value"} \cup
    {"mandatory field '" \o name \o "' not present" :
        name \in {"module-name", "module-revision", "assignment-range", "item",
                  "entry-point", "size", "namespace", "identifier", "sid",
                  "dependency-revision"}}

StructuralError == error.class = "SidFileError" /\ error.msg \in StructuralMessages

\* C15 as stated: a document that holds module-name, module-revision, ranges
\* that each hold an entry point and a size, and an item list that is empty,
\* passes structural validation.
EmptyItemListAccepted ==
    pc = "done" /\ file.items = <<>> /\ SizesPresent(file) /\ HasKey(file, "item")
        => ~StructuralError

-----------------------------------------------------------------------------
(* The values of the members of ranges and items: validate_ranges and       *)
(* validate_items on documents of one range and one item                    *)

\* the values written for the namespace of the item
FieldNamespaces ==
    {Str(p \o e) : p \in StringPrefixes, e \in namespace_ends} \cup {Str("mod"), Num(1)}

\* the values written for entry-point, size and sid
FieldEntryPoints == {Str("0"), Str("-2"), Num(0)}
FieldSizes == {Str("3"), Str("0"), Num(3)}
FieldSids == {Str("0"), Str("-2"), Str("+1"), Str("x"), Num(1), Absent}

InitFields ==
    /\ \E namespace \in FieldNamespaces, entry_point \in FieldEntryPoints,
          size \in FieldSizes, sid \in FieldSids :
          file = Document(<<[entry_point |-> entry_point, size |-> size]>>,
                          <<[namespace |-> namespace, identifier |-> Str("m"),
                             sid |-> sid]>>)
    /\ content = EmptyContent
    /\ opts = Options("update", NoArg, NoArg, FALSE, FALSE)
    /\ is_consistent = TRUE
    /\ error = NoError
    /\ output = <<>>
    /\ generated = <<>>
    /\ yang_module = Toaster(1, <<>>, <<>>, FALSE)
    /\ pc = "start"

NextFields == LoadDocument

SpecFields == InitFields /\ [][NextFields]_vars

\* C16 as stated: in a document that passes structural validation the
\* namespace of every item is one of module, identity, feature, data.
NamespaceIsOneOfFour ==
    pc = "done" /\ ~StructuralError =>
        \A i \in DOMAIN file.items :
            /\ file.items[i].namespace.t = "str"
            /\ file.items[i].namespace.s \in {"module", "identity", "feature", "data"}

\* C17 as stated: in a document that loads, every range has an entry point
\* of 0 or more and a size of 1 or more and every item a sid of 0 or more,
\* each written as a string.
NumbersAreUnsigned ==
    pc = "done" /\ error = NoError =>
        /\ \A i \in DOMAIN file.ranges :
              /\ file.ranges[i].entry_point.t = "str" /\ file.ranges[i].size.t = "str"
              /\ content.ranges[i].entry_point >= 0
              /\ content.ranges[i].size >= 1
        /\ \A i \in DOMAIN file.items :
              /\ file.items[i].sid.t = "str"
              /\ content.items[i].sid >= 0

-----------------------------------------------------------------------------
(* Runs on documents written by hand that list a feature more than once     *)

\* the identifiers of the features listed
KeyIdentifiers == {"a", "f"}

\* one range and up to two items, with the sids 0, 1 in this order
KeyFiles ==
    {Document(<<[entry_point |-> Str("0"), size |-> Str("3")]>>,
              [i \in DOMAIN ids |-> [namespace |-> Str("feature"),
                                     identifier |-> Str(ids[i]),
                                     sid |-> Str(PyStr(i - 1))]]) :
        ids \in UNION {[1..n -> KeyIdentifiers] : n \in 1..2}}

InitKeys ==
    /\ file \in KeyFiles
    /\ content = EmptyContent
    /\ opts = NoOptions
    /\ is_consistent = TRUE
    /\ error = NoError
    /\ output = <<>>
    /\ generated = <<>>
    /\ yang_module = Toaster(1, <<>>, <<>>, FALSE)
    /\ pc = "start"

NextKeys == Update \/ CheckFileValid

SpecKeys == InitKeys /\ [][NextKeys]_vars

\* C18 as stated: after an update run or a check of validity that raises no
\* error, the document on disk, which the run validated or wrote, holds no
\* two items with the same namespace and identifier.
KeysAreUnique ==
    pc = "done" /\ error = NoError =>
        \A i, j \in DOMAIN file.items :
            i # j => KeyOfEntry(file.items[i]) # KeyOfEntry(file.items[j])

-----------------------------------------------------------------------------
(* Reports of one run on a document written by hand, its items in any order *)

\* the items these documents list; each identifier belongs to one namespace
ReportKeys == {Key("module", "m"), Key("identity", "i"), Key("feature", "a"),
               Key("feature", "f")}

\* one range and up to MaxItems items, with the sids 0, 1, ... in file order
ReportFiles ==
    {Document(<<[entry_point |-> Str("0"), size |-> Str("5")]>>,
              [i \in DOMAIN keys |-> [namespace |-> Str(keys[i].namespace),
                                      identifier |-> Str(keys[i].identifier),
                                      sid |-> Str(PyStr(i - 1))]]) :
        keys \in UNION {[1..n -> ReportKeys] : n \in 1..MaxItems}}

InitReport ==
    /\ file \in ReportFiles
    /\ content = EmptyContent
    /\ opts = NoOptions
    /\ is_consistent = TRUE
    /\ error = NoError
    /\ output = <<>>
    /\ generated = <<>>
    /\ yang_module = Toaster(1, <<>>, <<>>, FALSE)
    /\ pc = "start"

\* one run on each document
NextReport ==
    \/ pc = "start" /\ Update
    \/ pc = "start" /\ CheckFile
    \/ pc = "start" /\ CheckFileValid

SpecReport == InitReport /\ [][NextReport]_vars

\* the order of the reports: the namespaces in the order module, identity,
\* feature, data, and within a namespace the identifiers in ascending order
NamespaceRank(namespace) ==
    CASE namespace = "module" -> 1
      [] namespace = "identity" -> 2
      [] namespace = "feature" -> 3
      [] OTHER -> 4

InReportOrder(namespace1, identifier1, namespace2, identifier2) ==
    \/ NamespaceRank(namespace1) < NamespaceRank(namespace2)
    \/ /\ namespace1 = namespace2
       /\ ~StrLt(identifier2, identifier1)

NamespaceOfIdentifier(identifier) ==
    (CHOOSE key \in ReportKeys : key.identifier = identifier).namespace

\* the lines of the full listing are in report order
ListingInOrder ==
    \A k, l \in DOMAIN output :
        k < l /\ output[k].kind = "item" /\ output[l].kind = "item" =>
            InReportOrder(output[k].namespace, output[k].identifier,
                          output[l].namespace, output[l].identifier)

\* the warnings about deleted items, which print the identifier only, are in
\* report order
DeletedInOrder ==
    \A k, l \in DOMAIN output :
        k < l /\ output[k].kind = "WARNING, item was deleted"
              /\ output[l].kind = "WARNING, item was deleted" =>
            InReportOrder(NamespaceOfIdentifier(output[k].identifier),
                          output[k].identifier,
                          NamespaceOfIdentifier(output[l].identifier),
                          output[l].identifier)

ViolationKinds == {"no module", "no feature", "no identity"}

\* the lines of the check of validity are in report order
ViolationsInOrder ==
    \A k, l \in DOMAIN output :
        k < l /\ output[k].kind \in ViolationKinds /\ output[l].kind \in ViolationKinds =>
            InReportOrder(output[k].namespace, output[k].identifier,
                          output[l].namespace, output[l].identifier)

\* the lines of the check of validity are in the order of the document
ViolationsInFileOrder ==
    \A k, l \in DOMAIN output :
        k < l /\ output[k].kind \in ViolationKinds /\ output[l].kind \in ViolationKinds =>
            \E i, j \in DOMAIN file.items :
                /\ i < j
                /\ KeyOfEntry(file.items[i]) = Key(output[k].namespace, output[k].identifier)
                /\ KeyOfEntry(file.items[j]) = Key(output[l].namespace, output[l].identifier)

\* C19 as stated: the full listing, the warnings about deleted items and the
\* report of the check of validity list the items grouped by namespace and
\* sorted by identifier, whatever the order of the items in the document.
AllReportsInOrder ==
    pc = "done" => ListingInOrder /\ DeletedInOrder /\ ViolationsInOrder

\* C19, corrected: the full listing and the warnings about deleted items are
\* grouped by namespace and sorted by identifier, whatever the order of the
\* items in the document; the report of the check of validity follows the
\* order of the items in the document.
ListingsInOrderViolationsInFileOrder ==
    pc = "done" => ListingInOrder /\ DeletedInOrder /\ ViolationsInFileOrder

\* C19: a document that lists feature f in front of feature a and module m
\* last was listed: the listing holds m, then a, then f
ListedOutOfFileOrder ==
    /\ pc = "done" /\ opts.list_content /\ error = NoError
    /\ \E i, j \in DOMAIN file.items :
          /\ i < j
          /\ ~InReportOrder(file.items[i].namespace.s, file.items[i].identifier.s,
                            file.items[j].namespace.s, file.items[j].identifier.s)
          /\ \E k, l \in DOMAIN output :
                /\ k < l /\ output[k].kind = "item" /\ output[l].kind = "item"
                /\ Key(output[k].namespace, output[k].identifier)
                       = KeyOfEntry(file.items[j])
                /\ Key(output[l].namespace, output[l].identifier)
                       = KeyOfEntry(file.items[i])

-----------------------------------------------------------------------------
(* Runs on module toaster, from no file at all *)

\* module toaster, with or without feature heating-element
ToasterModule(features) ==
    [Toaster(1, features, <<>>, FALSE) EXCEPT !.ctx[1].arg = "toaster"]

ToasterModules == {ToasterModule(<<>>), ToasterModule(<<"heating-element">>)}

\* the values given to --sid-generate-file
ToasterArgs == {RangeArg(20000, 100), RangeArg(20000, 1), RangeArg(20001, 2), CountArg}

InitToaster ==
    /\ file = NoFile
    /\ content = EmptyContent
    /\ opts = NoOptions
    /\ is_consistent = TRUE
    /\ error = NoError
    /\ output = <<>>
    /\ generated = <<>>
    /\ yang_module = ToasterModule(<<>>)
    /\ pc = "start"

\* pyang --sid-generate-file {count | entry-point:size} [--sid-list] toaster.yang
GenerateToaster ==
    \E m \in ToasterModules, range \in ToasterArgs, list_content \in BOOLEAN :
        /\ Run(Options("generate", range, NoArg, list_content, FALSE), m)

\* pyang --sid-update-file file [--sid-list] toaster.yang
UpdateToaster ==
    \E m \in ToasterModules, list_content \in BOOLEAN :
        /\ Run(Options("update", NoArg, NoArg, list_content, FALSE), m)

\* pyang --sid-check-file file [--sid-list] toaster.yang
CheckToaster ==
    \E m \in ToasterModules, list_content \in BOOLEAN :
        /\ Run(Options("check", NoArg, NoArg, list_content, FALSE), m)

NextToaster == GenerateToaster \/ UpdateToaster \/ CheckToaster

SpecToaster == InitToaster /\ [][NextToaster]_vars

\* the document of scenario A: range (20000, 100) and module toaster at 20000
ScenarioADocument(f) ==
    /\ f # NoFile
    /\ f.ranges = <<[entry_point |-> Str("20000"), size |-> Str("100")]>>
    /\ f.items = <<[namespace |-> Str("module"), identifier |-> Str("toaster"),
                    sid |-> Str("20000")]>>

\* C20: a generate run with range 20000:100 on module toaster, which
\* enumerates (module, toaster) only, leaves one item {module, toaster,
\* 20000}, finds the content dirty and writes it; an update run on that
\* document and the module with feature heating-element keeps toaster at
\* 20000, lists it as existing and heating-element as new, and gives
\* heating-element 20001.
ScenariosAB ==
    [][/\ opts'.mode = "generate" /\ opts'.range = RangeArg(20000, 100)
          /\ Enumeration(yang_module') = <<Key("module", "toaster")>>
          => /\ error' = NoError
             /\ ~is_consistent'
             /\ content'.items = <<[namespace |-> "module", identifier |-> "toaster",
                                    sid |-> 20000, status |-> ""]>>
             /\ ScenarioADocument(file')
       /\ opts'.mode = "update" /\ ScenarioADocument(file)
          /\ Enumeration(yang_module') = <<Key("module", "toaster"),
                                           Key("feature", "heating-element")>>
          => /\ error' = NoError
             /\ ~is_consistent'
             /\ content'.items = <<[namespace |-> "module", identifier |-> "toaster",
                                    sid |-> 20000, status |-> ""],
                                   [namespace |-> "feature",
                                    identifier |-> "heating-element",
                                    sid |-> 20001, status |-> ""]>>
             /\ file'.items = <<[namespace |-> Str("module"),
                                 identifier |-> Str("toaster"), sid |-> Str("20000")],
                                [namespace |-> Str("feature"),
                                 identifier |-> Str("heating-element"),
                                 sid |-> Str("20001")]>>
             /\ opts'.list_content =>
                   /\ Out("item", "module", "toaster", 20000, "") \in Range(output')
                   /\ Out("item", "feature", "heating-element", 20001, " (New)")
                          \in Range(output')]_vars

\* C20: scenario B has run: the document lists toaster at 20000 and
\* heating-element at 20001
ScenarioBDone ==
    /\ pc = "done" /\ opts.mode = "update" /\ error = NoError
    /\ Printed("File updated")
    /\ Len(file.items) = 2
    /\ file.items[1].identifier = Str("toaster") /\ file.items[1].sid = Str("20000")
    /\ file.items[2].identifier = Str("heating-element")
    /\ file.items[2].sid = Str("20001")

-----------------------------------------------------------------------------
(* The check of validity of the items of namespace module                   *)

\* module m, with or without its submodule ms, with or without an imported
\* module n, which comes with or without its submodule ns: pyang keeps every
\* module and submodule it loaded in the one dictionary module.i_ctx.modules
Household(with_submodule, with_import, with_foreign_submodule) ==
    [ctx |-> <<ModuleStatement("module", "m", 1, "")>>
             \o (IF with_submodule THEN <<ModuleStatement("submodule", "ms", 1, "m")>>
                 ELSE <<>>)
             \o (IF with_import THEN <<ModuleStatement("module", "n", 1, "")>> ELSE <<>>)
             \o (IF with_import /\ with_foreign_submodule
                 THEN <<ModuleStatement("submodule", "ns", 1, "n")>> ELSE <<>>),
     features |-> <<>>, identities |-> <<>>, nodes |-> <<>>, augments |-> <<>>,
     imports |-> with_import]

Households == {Household(s, i, f) : s \in BOOLEAN, i \in BOOLEAN, f \in BOOLEAN}

\* the names the items of namespace module bear in the documents
ModuleItemNames == {"m", "ms", "n", "ns", "z"}

InitModules ==
    /\ \E names \in UNION {[1..n -> ModuleItemNames] : n \in 1..MaxItems} :
          file = XrefDocument([i \in DOMAIN names |-> Key("module", names[i])])
    /\ yang_module \in Households
    /\ content = EmptyContent
    /\ opts = NoOptions
    /\ is_consistent = TRUE
    /\ error = NoError
    /\ output = <<>>
    /\ generated = <<>>
    /\ pc = "start"

NextModules == CheckValidity

SpecModules == InitModules /\ [][NextModules]_vars

\* the name of the subject module and the names of the submodules that
\* belong to it
OwnModuleNames(m) ==
    {m.ctx[SubjectOf(m)].arg} \cup
    {m.ctx[k].arg : k \in {j \in DOMAIN m.ctx :
                              /\ m.ctx[j].keyword = "submodule"
                              /\ m.ctx[j].including = m.ctx[SubjectOf(m)].arg}}

\* the run reported that the identifier names no module or submodule
ReportedNoModule(identifier) ==
    \E k \in DOMAIN output :
        output[k].kind = "no module" /\ output[k].identifier = identifier

\* C21 as stated: in the check of validity an item of namespace module is
\* accepted if and only if its identifier is the name of the subject module
\* or of one of its submodules; the name of another module, or of a submodule
\* of another module of the context, is reported, and the run then fails.
ModuleItemAcceptedIffOwn ==
    pc = "done" =>
        /\ \A i \in DOMAIN file.items :
              ReportedNoModule(file.items[i].identifier.s)
                  <=> file.items[i].identifier.s \notin OwnModuleNames(yang_module)
        /\ error = NoError <=>
              \A i \in DOMAIN file.items :
                  file.items[i].identifier.s \in OwnModuleNames(yang_module)

-----------------------------------------------------------------------------
(* Reconciliation on its own: collect_module_items on a loaded content      *)

\* Module m with its submodule ms and the module n it imports, which holds
\* container t.  m holds container c and, as the flags tell: leaf x in c;
\* container d, defined in ms; leaf y added to t of n by an augment
\* statement; leaf y added to its own container c by an augment statement
\* (RFC 7950, 7.17: the target is a node of another module or of the current
\* module); a second, newer revision of m in module.i_ctx.modules, which
\* holds container c too.
Larder(with_nested, with_submodule_node, with_augment, with_own_augment, with_newer) ==
    [ctx |-> <<ModuleStatement("module", "m", 1, ""),
               ModuleStatement("submodule", "ms", 1, "m"),
               ModuleStatement("module", "n", 1, "")>>
             \o (IF with_newer THEN <<ModuleStatement("module", "m", 2, "")>> ELSE <<>>),
     features |-> <<"f">>, identities |-> <<"i">>,
     nodes |-> <<SchemaNode("c", "container", 1, 0, 1),
                 SchemaNode("t", "container", 3, 0, 3)>>
               \o (IF with_nested THEN <<SchemaNode("x", "leaf", 1, 1, 1)>> ELSE <<>>)
               \o (IF with_submodule_node THEN <<SchemaNode("d", "container", 2, 0, 1)>>
                   ELSE <<>>)
               \o (IF with_augment THEN <<SchemaNode("y", "leaf", 1, 2, 3)>> ELSE <<>>)
               \o (IF with_own_augment THEN <<SchemaNode("y", "leaf", 1, 1, 1)>> ELSE <<>>)
               \o (IF with_newer THEN <<SchemaNode("c", "container", 4, 0, 4)>> ELSE <<>>),
     augments |-> (IF with_augment THEN <<2>> ELSE <<>>)
                  \o (IF with_own_augment THEN <<1>> ELSE <<>>),
     imports |-> TRUE]

\* the modules reconciliation runs on: one revision of each module
Larders == {Larder(nested, FALSE, augment, own_augment, FALSE) :
               nested \in BOOLEAN, augment \in BOOLEAN, own_augment \in BOOLEAN}

\* the items of the content loaded: some the module enumerates, some not
ReconcileKeys == {Key("module", "m"), Key("feature", "a"), Key("feature", "f"),
                  Key("data", "/m:c"), Key("data", "/m:c/y"), Key("data", "/m:d")}

\* the content of a document after validate_sid: the items hold the sids
\* 0, 1, ... of its range, in this order
ReconcileItems ==
    {[i \in DOMAIN keys |-> [namespace |-> keys[i].namespace,
                             identifier |-> keys[i].identifier,
                             sid |-> i - 1, status |-> ""]] :
        keys \in UNION {[1..n -> ReconcileKeys] : n \in 0..MaxItems}}

InitReconcile ==
    /\ \E items \in ReconcileItems :
          content = [EmptyContent EXCEPT !.ranges = <<[entry_point |-> 0, size |-> 8]>>,
                                         !.items = items]
    /\ yang_module \in Larders
    /\ file = NoFile
    /\ opts = Options("update", NoArg, NoArg, FALSE, FALSE)
    /\ is_consistent = TRUE
    /\ error = NoError
    /\ output = <<>>
    /\ generated = <<>>
    /\ pc = "start"

\* self.collect_module_items(module) (sid.py:344)
CollectModuleItems ==
    /\ pc = "start"
    /\ \E merged \in {collect_module_items(content.items, is_consistent, yang_module)} :
          /\ content' = [content EXCEPT !.items = merged.items]
          /\ is_consistent' = merged.is_consistent
          /\ error' = merged.error
    /\ pc' = "done"
    /\ UNCHANGED <<file, opts, output, generated, yang_module>>

NextReconcile == CollectModuleItems

SpecReconcile == InitReconcile /\ [][NextReconcile]_vars

\* the (namespace, identifier) of an item of a content
KeyOfItem(item) == Key(item.namespace, item.identifier)

KeysOfItems(items) == {KeyOfItem(items[i]) : i \in DOMAIN items}

\* C22 as stated: reconciliation keeps the items of the input in place and
\* appends items behind them.  An item of the input is existing ('o') if the
\* module enumerates its (namespace, identifier) and deleted ('d') if not; the
\* items appended are new ('n'), hold no sid, and are exactly the enumerated
\* (namespace, identifier) pairs the input did not hold; the content is
\* marked inconsistent when an item was appended.
ReconciliationStatus ==
    [][CollectModuleItems /\ error' = NoError =>
          LET enumerated == Range(Enumeration(yang_module))
              before == content.items
              after == content'.items
          IN /\ Len(after) >= Len(before)
             /\ \A i \in DOMAIN before :
                   /\ KeyOfItem(after[i]) = KeyOfItem(before[i])
                   /\ after[i].sid = before[i].sid
                   /\ after[i].status = IF KeyOfItem(before[i]) \in enumerated
                                        THEN "o" ELSE "d"
             /\ \A i \in DOMAIN after \ DOMAIN before :
                   /\ after[i].status = "n"
                   /\ after[i].sid = Unassigned
                   /\ KeyOfItem(after[i]) \in enumerated \ KeysOfItems(before)
             /\ enumerated \ KeysOfItems(before)
                   = {KeyOfItem(after[i]) : i \in DOMAIN after \ DOMAIN before}
             /\ Len(after) > Len(before) => ~is_consistent']_vars

-----------------------------------------------------------------------------
(* The order of assignment: sort_items, then assign_sid, on a content that  *)
(* was reconciled                                                           *)

\* the ranges of these contents; every one holds the sids 0 and 1 of the
\* items loaded
OrderRangeLists ==
    { <<RangeOf(<<0, 8>>)>>, <<RangeOf(<<0, 3>>)>>, <<RangeOf(<<0, 2>>)>>,
      <<RangeOf(<<0, 3>>), RangeOf(<<3, 1>>)>>, <<RangeOf(<<3, 1>>), RangeOf(<<0, 3>>)>> }

InitOrder ==
    /\ \E items \in ReconcileItems, m \in Larders, ranges \in OrderRangeLists :
          /\ yang_module = m
          /\ \E merged \in {collect_module_items(items, TRUE, m)} :
                /\ content = [EmptyContent EXCEPT !.ranges = ranges,
                                                  !.items = merged.items]
                /\ is_consistent = merged.is_consistent
    /\ file = NoFile
    /\ opts = Options("update", NoArg, NoArg, FALSE, FALSE)
    /\ error = NoError
    /\ output = <<>>
    /\ generated = <<>>
    /\ pc = "start"

\* self.sort_items(); self.assign_sid() (sid.py:368-369)
SortAndAssign ==
    /\ pc = "start"
    /\ \E st \in {Allocate(RunState(content, is_consistent, NoError, <<>>, file, <<>>,
                                    FALSE))} :
          /\ content' = st.content
          /\ error' = st.error
          /\ generated' = st.generated
    /\ pc' = "done"
    /\ UNCHANGED <<file, opts, is_consistent, output, yang_module>>

NextOrder == SortAndAssign

SpecOrder == InitOrder /\ [][NextOrder]_vars

\* the sid the item of this (namespace, identifier) holds in a list of items
\* that holds it once
SidOfKey(items, key) ==
    items[CHOOSE i \in DOMAIN items : KeyOfItem(items[i]) = key].sid

\* the (namespace, identifier) pairs that held no sid in the first list and
\* hold one in the second
AllocatedKeys(before, after) ==
    {key \in KeysOfItems(before) :
        /\ SidOfKey(before, key) = Unassigned
        /\ \E i \in DOMAIN after :
              KeyOfItem(after[i]) = key /\ after[i].sid # Unassigned}

\* the order of the walk of collect_module_items: the names of the module
\* and its submodules, the features, the data nodes, the identities
TraversalRank(namespace) ==
    CASE namespace = "module" -> 1
      [] namespace = "feature" -> 2
      [] namespace = "data" -> 3
      [] OTHER -> 4

TraversalBefore(key1, key2) ==
    \/ TraversalRank(key1.namespace) < TraversalRank(key2.namespace)
    \/ key1.namespace = key2.namespace /\ StrLt(key1.identifier, key2.identifier)

\* the order sort_items leaves the list in: module, identity, feature, data
SortedBefore(key1, key2) ==
    \/ NamespaceRank(key1.namespace) < NamespaceRank(key2.namespace)
    \/ key1.namespace = key2.namespace /\ StrLt(key1.identifier, key2.identifier)

\* C23 as stated: of two items that receive a sid in one run, the one that
\* comes first in the order module names, features, data nodes, identities
\* (by identifier within a namespace) receives the smaller sid.
AssignedInTraversalOrder ==
    [][SortAndAssign =>
          \A key1, key2 \in AllocatedKeys(content.items, content'.items) :
              TraversalBefore(key1, key2) =>
                  SidOfKey(content'.items, key1) < SidOfKey(content'.items, key2)]_vars

\* C23, corrected: of two items that receive a sid in one run, the one that
\* comes first in the order sort_items gives the list, which is module names,
\* identities, features, data nodes (by identifier within a namespace),
\* receives the smaller sid; and if an item is left without a sid, so is
\* every item behind it in that order.
AssignedInSortedOrder ==
    [][SortAndAssign =>
          /\ \A key1, key2 \in AllocatedKeys(content.items, content'.items) :
                SortedBefore(key1, key2) =>
                    SidOfKey(content'.items, key1) < SidOfKey(content'.items, key2)
          /\ \A key1 \in AllocatedKeys(content.items, content'.items),
                key2 \in KeysOfItems(content.items) :
                SidOfKey(content.items, key2) = Unassigned /\ SortedBefore(key2, key1)
                    => key2 \in AllocatedKeys(content.items, content'.items)]_vars

\* C23: identity i and feature f received their sids in one run: i holds the
\* smaller one
IdentityNumberedBeforeFeature ==
    /\ pc = "done" /\ error = NoError
    /\ generated # <<>>
    /\ \E i, j \in DOMAIN content.items :
          /\ KeyOfItem(content.items[i]) = Key("identity", "i")
          /\ KeyOfItem(content.items[j]) = Key("feature", "f")
          /\ content.items[i].status = "n" /\ content.items[j].status = "n"
          /\ content.items[i].sid < content.items[j].sid

-----------------------------------------------------------------------------
(* Identifier assignment on ranges declared in any order                    *)

\* (entry-point, size) of the ranges of these contents
PermuteRanges == { <<0, 2>>, <<3, 1>>, <<5, 2>>, <<3, 0>> }

\* the lists of ranges validate_overlapping_ranges accepts, in every order
PermuteRangeLists ==
    {ranges \in UNION {[1..n -> {RangeOf(pair) : pair \in PermuteRanges}] :
                          n \in 1..MaxAllocRanges} :
        validate_overlapping_ranges(WireRanges(ranges)) = NoError}

InitPermute ==
    /\ \E ranges \in PermuteRangeLists : \E sids \in AllocSids(ranges) :
          content = [EmptyContent EXCEPT !.ranges = ranges, !.items = AllocItems(sids)]
    /\ file = NoFile
    /\ opts = NoOptions
    /\ is_consistent = TRUE
    /\ error = NoError
    /\ output = <<>>
    /\ generated = <<>>
    /\ yang_module = Toaster(1, <<>>, <<>>, FALSE)
    /\ pc = "start"

NextPermute == AssignSid

SpecPermute == InitPermute /\ [][NextPermute]_vars

\* the ranges are in ascending order of entry point
AscendingRanges(ranges) ==
    \A i, j \in DOMAIN ranges : i < j => ranges[i].entry_point <= ranges[j].entry_point

\* C24: the sids are taken from the ranges in ascending order of entry point
\* whatever the order the ranges are declared in: for every permutation of
\* the list of (disjoint) ranges the assignment gives the items the same sids
\* and ends with the same error, and the sids the generator yields are the
\* ones a sweep of the ranges in ascending order of entry point yields.
AssignmentIgnoresRangeOrder ==
    [][AssignSid =>
          \A p \in Permutations(DOMAIN content.ranges) :
              /\ assign_sid(Reordered(content.ranges, p), content.items).items
                     = content'.items
              /\ (assign_sid(Reordered(content.ranges, p), content.items).error = "")
                     = (error' = NoError)
              /\ AscendingRanges(Reordered(content.ranges, p))
                     /\ UnassignedItems(content) # {}
                 => generated' = SweepRanges(UsedSids(content.items),
                                             Reordered(content.ranges, p), 1, <<>>)]_vars

\* C24: the ranges (5, 2) and (0, 2) were declared in this order, sid 0 was
\* in use: the two items without a sid received 1 and 5
RangesDeclaredOutOfOrder ==
    /\ pc = "done" /\ error = NoError
    /\ content.ranges = <<RangeOf(<<5, 2>>), RangeOf(<<0, 2>>)>>
    /\ [i \in DOMAIN content.items |-> content.items[i].sid] = <<0, 1, 5>>
    /\ generated = <<1, 5, 6>>

-----------------------------------------------------------------------------
(* Update runs on a module that was revised or renamed                      *)

\* module m at its first or second revision, or the module renamed to n,
\* with these features
Revised(name, revision, features) ==
    [Toaster(revision, features, <<>>, FALSE) EXCEPT !.ctx[1].arg = name]

RevisedModules ==
    {Revised(name, revision, features) :
        name \in {"m", "n"}, revision \in {1, 2}, features \in {<<>>, <<"f">>}}

\* the documents found on disk, all of module m at its first revision: one
\* lists module m; one lists m and feature f; one lists m and n
RevisedFiles ==
    {Document(<<[entry_point |-> Str("0"), size |-> Str("3")]>>,
              [i \in DOMAIN keys |-> [namespace |-> Str(keys[i].namespace),
                                      identifier |-> Str(keys[i].identifier),
                                      sid |-> Str(PyStr(i - 1))]]) :
        keys \in { <<Key("module", "m")>>,
                   <<Key("module", "m"), Key("feature", "f")>>,
                   <<Key("module", "m"), Key("module", "n")>> }}

\* the values given to --sid-extra-range
RevisedExtraRanges == {NoArg, RangeArg(3, 1), RangeArg(5, 2)}

InitRevised ==
    /\ file \in RevisedFiles
    /\ content = EmptyContent
    /\ opts = NoOptions
    /\ is_consistent = TRUE
    /\ error = NoError
    /\ output = <<>>
    /\ generated = <<>>
    /\ yang_module = Toaster(1, <<>>, <<>>, FALSE)
    /\ pc = "start"

\* pyang --sid-update-file file [--sid-extra-range entry-point:size] [--sid-list]
UpdateRevised ==
    \E m \in RevisedModules, extra_range \in RevisedExtraRanges, list_content \in BOOLEAN :
        /\ extra_range.kind = "range" => Len(file.ranges) < MaxRanges
        /\ Run(Options("update", NoArg, extra_range, list_content, FALSE), m)

NextRevised == UpdateRevised

SpecRevised == InitRevised /\ [][NextRevised]_vars

\* the (namespace, identifier) pairs a document lists
KeysOfFile(f) == {KeyOfEntry(f.items[i]) : i \in DOMAIN f.items}

\* C25: an update run that raises no error finds the content inconsistent
\* if and only if reconciliation appended an item, that is, the module
\* enumerates a (namespace, identifier) the document does not list.  A run
\* that appended none leaves the document on disk as it was and tells so,
\* even though the content in memory holds the name and the revision of the
\* module, the extra range of the command line and the version counter plus
\* one; a run that appended one writes the content.
DirtyIffItemAppended ==
    [][opts'.mode = "update" /\ error' = NoError =>
          /\ ~is_consistent' <=> Range(Enumeration(yang_module')) \ KeysOfFile(file) # {}
          /\ ~is_consistent' <=> Len(content'.items) > Len(file.items)
          /\ content'.scalars["module-name"] = Str(yang_module'.ctx[1].arg)
          /\ content'.scalars["module-revision"]
                 = Str(Revisions[yang_module'.ctx[1].revision])
          /\ content'.scalars["sid-file-version"] =
                 IF file.scalars["sid-file-version"] = Absent THEN Num(1)
                 ELSE Num(file.scalars["sid-file-version"].n + 1)
          /\ Len(content'.ranges) = Len(file.ranges)
                 + (IF opts'.extra_range.kind = "range" THEN 1 ELSE 0)
          /\ is_consistent' =>
                /\ file' = file
                /\ \E k \in DOMAIN output' : output'[k].kind = "No .sid file generated"
          /\ ~is_consistent' =>
                /\ file' = preprocess_content(content')
                /\ \E k \in DOMAIN output' : output'[k].kind = "File updated"]_vars

\* C25: an update run with an extra range on the second revision of the
\* module, which dropped feature f and added nothing: the document on disk
\* still holds the first revision, one range and no version counter
RevisionNotPersisted ==
    /\ pc = "done" /\ opts.mode = "update" /\ error = NoError
    /\ opts.extra_range.kind = "range"
    /\ is_consistent
    /\ \E i \in DOMAIN content.items : content.items[i].status = "d"
    /\ content.scalars["module-revision"] = Str(Revisions[2])
    /\ file.scalars["module-revision"] = Str(Revisions[1])
    /\ Len(content.ranges) = 2 /\ Len(file.ranges) = 1
    /\ content.scalars["sid-file-version"] = Num(1)
    /\ file.scalars["sid-file-version"] = Absent

-----------------------------------------------------------------------------
(* A generate run, then the check of validity of the document it wrote, on  *)
(* the module as it is                                                      *)

\* the modules: with or without nested nodes, nodes defined in the
\* submodule, nodes added to another module or to the module itself by an
\* augment statement, and a newer revision of the module loaded beside it
\* (get_module_by_name, sid.py:781-794, provides for several revisions of
\* a name in module.i_ctx.modules)
AgreeModules ==
    {Larder(nested, submodule_node, augment, own_augment, newer) :
        nested \in BOOLEAN, submodule_node \in BOOLEAN, augment \in BOOLEAN,
        own_augment \in BOOLEAN, newer \in BOOLEAN}

\* the values given to --sid-generate-file
AgreeArgs == {RangeArg(0, 10), RangeArg(1, 10), RangeArg(2, 10)}

InitAgree ==
    /\ file = NoFile
    /\ yang_module \in AgreeModules
    /\ content = EmptyContent
    /\ opts = NoOptions
    /\ is_consistent = TRUE
    /\ error = NoError
    /\ output = <<>>
    /\ generated = <<>>
    /\ pc = "start"

\* pyang --sid-generate-file entry-point:size, on the module compiled
GenerateForModule ==
    /\ pc = "start"
    /\ \E range \in AgreeArgs :
          Run(Options("generate", range, NoArg, FALSE, FALSE), yang_module)

\* pyang --sid-check-file-valid on the document the generate run wrote, on
\* the same module
CheckValidityOfGenerated ==
    /\ pc = "done" /\ opts.mode = "generate" /\ error = NoError
    /\ Run(Options("valid", NoArg, NoArg, FALSE, FALSE), yang_module)

NextAgree == GenerateForModule \/ CheckValidityOfGenerated

SpecAgree == InitAgree /\ [][NextAgree]_vars

\* the lines the check of validity prints about an item
ViolationLines ==
    ViolationKinds \cup {"not a valid schema node identifier", "missing module prefix",
                         "name not found", "not a schema node from .yang file"}

\* C26 as stated: the check of validity of a document a generate run wrote,
\* on the module the run was given, reports no violation and raises no
\* error: every data identifier the enumeration produced (for top-level
\* nodes, nested nodes and nodes added by an augment statement) resolves to
\* a schema node of the module.
EnumerationResolves ==
    [][opts'.mode = "valid" =>
          /\ error' = NoError
          /\ \A k \in DOMAIN output' : output'[k].kind \notin ViolationLines
          /\ \A i \in DOMAIN file.items :
                file.items[i].namespace.s = "data" =>
                    check_data_identifier(yang_module, file.items[i].identifier.s).valid]_vars

-----------------------------------------------------------------------------
(* Documents whose ranges and items lack members                            *)

\* the ranges: each holds or lacks its entry point and its size
MandatoryRanges ==
    UNION {[1..n -> [entry_point : {Str("0"), Absent}, size : {Str("3"), Absent}]] :
              n \in 1..MaxRanges}

\* the items: features a, f, ... with the sids 0, 1, ..., each holding or
\* lacking its namespace, its identifier and its sid
MandatoryItems ==
    UNION {{[i \in 1..n |-> [namespace |-> IF held[i][1] THEN Str("feature") ELSE Absent,
                             identifier |-> IF held[i][2] THEN Str(AllocIdentifiers[i])
                                            ELSE Absent,
                             sid |-> IF held[i][3] THEN Str(PyStr(i - 1)) ELSE Absent]] :
               held \in [1..n -> BOOLEAN \X BOOLEAN \X BOOLEAN]} :
           n \in 1..MaxItems}

InitMandatory ==
    /\ \E ranges \in MandatoryRanges, items \in MandatoryItems :
          file = Document(ranges, items)
    /\ \E mode \in {"update", "valid"} : opts = Options(mode, NoArg, NoArg, FALSE, FALSE)
    /\ yang_module = Toaster(1, <<"a", "f", "i">>, <<>>, FALSE)
    /\ content = EmptyContent
    /\ is_consistent = TRUE
    /\ error = NoError
    /\ output = <<>>
    /\ generated = <<>>
    /\ pc = "start"

NextMandatory == LoadDocument

SpecMandatory == InitMandatory /\ [][NextMandatory]_vars

\* every range and every item of the document holds its mandatory members
EntriesComplete(f) ==
    /\ \A i \in DOMAIN f.ranges :
          f.ranges[i].entry_point # Absent /\ f.ranges[i].size # Absent
    /\ \A i \in DOMAIN f.items :
          /\ f.items[i].namespace # Absent
          /\ f.items[i].identifier # Absent
          /\ f.items[i].sid # Absent

\* the error of a document that lacks a mandatory member
MandatoryMessages ==
    {"mandatory field '" \o name \o "' not present" :
        name \in {"entry-point", "size", "namespace", "identifier", "sid"}}

\* C27 as stated: a document in which one range lacks its entry point or its
\* size, or one item its namespace, its identifier or its sid, is rejected
\* with the error of the document that names a mandatory member, whatever
\* the other entries of the list hold; a document that loads without error
\* holds every mandatory member in every entry.
MandatoryPerEntry ==
    pc = "done" =>
        /\ ~EntriesComplete(file) =>
              error.class = "SidFileError" /\ error.msg \in MandatoryMessages
        /\ error = NoError => EntriesComplete(file)

====
